---- MODULE Spec2Model ----
(***************************************************************************)
(* Reminder lifecycle and recurring-task regeneration of the todo backend. *)
(*                                                                         *)
(* A datetime is an integer: minutes since 0001-01-01T00:00 (UTC).         *)
(* A timedelta is an integer number of minutes.  A UUID is the creation    *)
(* index of its row (1, 2, ...): fresh, never reused.  An Optional value   *)
(* is None (the empty tuple) or Some(v) (a one-element tuple).             *)
(***************************************************************************)
EXTENDS Integers, Sequences, FiniteSets, TLC

\* ------------------------------------------------------------------ bounds
\* Tasks, reminders ever created; the clock's last tick; cap of retry_count.
NumTasks == 2
MaxReminders == 2
MaxTime == 1
MaxRetryCount == 3
\* Tasks generate_next_task ever creates; recurrence patterns ever created.
MaxGenerated == 2
MaxPatterns == 1
MaxLimit == 3
MaxInterval == 13
MaxCalls == 2
MaxStoreTasks == 3
MaxCallers == 2
MaxPublished == 2
\* WebSocket objects ever accepted at one time.
MaxSockets == 3

\* ------------------------------------------------------- program constants
MAX_RETRY_ATTEMPTS == 3
DEFAULT_LIMIT == 100

PENDING == "pending"
SENT == "sent"
CANCELLED == "cancelled"
FAILED == "failed"
ReminderStatus == {PENDING, SENT, CANCELLED, FAILED}

\* ---------------------------------------------------------------- optionals
None == << >>
Some(x) == <<x>>
Val(o) == o[1]

\* ------------------------------------------------------------------- inputs
Users == {"u1"}
Tenants == {"u1", "u2"}
Titles == {"t1"}
Descriptions == {"d1"}
Priorities == {"high"}
\* delivery_channel passed to schedule_reminder (create_task uses "in-app")
Channels == {"email"}
DueDates == {None} \cup {Some(d) : d \in 1..MaxTime}
Offsets == {None, Some(0), Some(1)}
\* str(e) of whatever _publish_reminder_event raised
PublishError == "publish failed"
\* str(delivery_error) the consumer passes to mark_reminder_failed
DeliveryErrors == {PublishError}

VARIABLES
    tasks,           \* tasks table: id -> row
    nextTaskId,      \* next fresh task id
    reminders,       \* reminders table: id -> row
    nextReminderId,  \* next fresh reminder id
    now,             \* datetime.now(timezone.utc)
    processed,       \* return value of the process_due_reminders call that just returned
    published,       \* events that call published, in order
    patterns,        \* recurrence_patterns table: id -> row
    nextPatternId,   \* next fresh pattern id
    generated,       \* "Generated next occurrence n for task c" log lines, as pairs <<c, n>>
    cal_pattern,     \* calculate_next_occurrence called on its own: its pattern,
    cal_from_date,   \*   its from_date,
    cal_results,     \*   and what it returned (no entry before the call)
    store_tasks,     \* TaskStore._tasks: id -> task
    store_next_id,   \* TaskStore._next_id
    handed_out,      \* ids of the tasks TaskStore.add returned, in order
    sched_calls,     \* schedule_reminder calls that wait for _get_pending_reminder
    topic,           \* the reminder.due topic: every event published, in order
    acked,           \* positions in topic the consumer answered SUCCESS or DROP
    handling,        \* handle_reminder_due calls that wait for the delivery
    dlq,             \* what _send_to_dlq published, in order
    answer,          \* what handle_reminder_due returned last: <<position, status>>
    ws_connections,  \* WebSocketManager._connections: user_id -> list of websockets
    failed_connections  \* the latest broadcast_to_user: its user_id, failed and sent sends

vars == <<tasks, nextTaskId, reminders, nextReminderId, now, processed, published,
          patterns, nextPatternId, generated, cal_pattern, cal_from_date, cal_results,
          store_tasks, store_next_id, handed_out,
          sched_calls, topic, acked, handling, dlq, answer, ws_connections,
          failed_connections>>

backendVars == <<tasks, nextTaskId, reminders, nextReminderId, now, processed, published,
                 patterns, nextPatternId, generated>>
calendarVars == <<cal_pattern, cal_from_date, cal_results>>
storeVars == <<store_tasks, store_next_id, handed_out>>
brokerVars == <<topic, acked, handling, dlq>>
wsVars == <<ws_connections, failed_connections>>

\* A call of the backend services that runs from start to end on its own: no
\* stand-alone calculation runs, the in-memory TaskStore is another program,
\* the broker and the websockets are not involved, no consumer handler returns.
BackendCall ==
    /\ UNCHANGED <<calendarVars, storeVars, sched_calls, brokerVars, wsVars>>
    /\ answer' = None

\* Any call that leaves the recurrence patterns alone and generates no task.
NoRecur == UNCHANGED <<patterns, nextPatternId, generated>>

\* Any call but process_due_reminders: nothing is published, no count returned.
NoSweep == processed' = 0 /\ published' = << >>

TaskIds == 1..(NumTasks + MaxGenerated)
PatternIds == 1..MaxPatterns
ReminderIds == 1..MaxReminders

\* A table with one more row, and with one row replaced.
Insert(table, id, row) == [i \in DOMAIN table \cup {id} |-> IF i = id THEN row ELSE table[i]]
Update(table, id, row) == [table EXCEPT ![id] = row]
Remove(table, ids) == [i \in DOMAIN table \ ids |-> table[i]]

\* ------------------------------------------------------------- task rows
NewTask(user_id, title, description, priority, due_date, offset, recurrence_id, parent_task_id) ==
    [title |-> title,
     description |-> description,
     priority |-> priority,
     user_id |-> user_id,
     is_complete |-> FALSE,
     due_date |-> due_date,
     reminder_offset_minutes |-> offset,
     recurrence_id |-> recurrence_id,
     parent_task_id |-> parent_task_id]

\* --------------------------------------------------------- ReminderService

\* select(Reminder).where(task_id == ..., status == PENDING)
PendingReminders(rems, task_id) ==
    {r \in DOMAIN rems : rems[r].task_id = task_id /\ rems[r].status = PENDING}

\* scalar_one_or_none() raises MultipleResultsFound on more than one row.
MultiplePending(rems, task_id) == Cardinality(PendingReminders(rems, task_id)) > 1

\* _get_pending_reminder: None or the one row's id.
GetPendingReminder(rems, task_id) ==
    IF PendingReminders(rems, task_id) = {} THEN None
    ELSE Some(CHOOSE r \in PendingReminders(rems, task_id) : TRUE)

NewReminder(task_id, user_id, scheduled_time, channel) ==
    [task_id |-> task_id,
     user_id |-> user_id,
     scheduled_time |-> scheduled_time,
     status |-> PENDING,
     delivery_channel |-> channel,
     sent_at |-> None,
     error_message |-> None,
     retry_count |-> 0]

\* Mutant: the offset is added to the due date.
ScheduledTimeAfterDue(due_date, offset) == Val(due_date) + Val(offset)

\* due_date - timedelta(minutes=reminder_offset_minutes)
ScheduledTime(due_date, offset) == Val(due_date) - Val(offset)

\* Mutant: "not task.reminder_offset_minutes", which takes 0 for unset.
ScheduleSkipsFalsyOffset(task) ==
    IF task.due_date = None \/ task.reminder_offset_minutes = None THEN TRUE
    ELSE IF Val(task.reminder_offset_minutes) = 0 THEN TRUE
    ELSE ScheduledTime(task.due_date, task.reminder_offset_minutes) < now

\* schedule_reminder returns None without touching the table.
ScheduleSkips(task) ==
    IF task.due_date = None \/ task.reminder_offset_minutes = None THEN TRUE
    ELSE ScheduledTime(task.due_date, task.reminder_offset_minutes) < now

\* Mutant: inserts without looking for the task's pending reminder.
ScheduleReminderTableBlindInsert(rems, rid, t, channel) ==
    LET task == tasks[t]
    IN  IF ScheduleSkips(task) THEN rems
        ELSE Insert(rems, rid, NewReminder(t, task.user_id,
                        ScheduledTime(task.due_date, task.reminder_offset_minutes), channel))

\* Mutant: the update of the pending reminder leaves its channel alone.
ScheduleReminderTableKeepsChannel(rems, rid, t, channel) ==
    LET task == tasks[t]
        existing == GetPendingReminder(rems, t)
        scheduled_time == ScheduledTime(task.due_date, task.reminder_offset_minutes)
    IN  IF ScheduleSkips(task) \/ MultiplePending(rems, t) THEN rems
        ELSE IF existing /= None
             THEN Update(rems, Val(existing),
                         [rems[Val(existing)] EXCEPT !.scheduled_time = scheduled_time])
             ELSE Insert(rems, rid, NewReminder(t, task.user_id, scheduled_time, channel))

\* schedule_reminder(task, delivery_channel): the reminders table afterwards;
\* rid is the id a new row would get.
ScheduleReminderTable(rems, rid, t, channel) ==
    LET task == tasks[t]
        existing == GetPendingReminder(rems, t)
        scheduled_time == ScheduledTime(task.due_date, task.reminder_offset_minutes)
    IN  IF ScheduleSkips(task) \/ MultiplePending(rems, t) THEN rems
        ELSE IF existing /= None
             THEN Update(rems, Val(existing),
                         [rems[Val(existing)] EXCEPT !.scheduled_time = scheduled_time,
                                                     !.delivery_channel = channel])
             ELSE Insert(rems, rid, NewReminder(t, task.user_id, scheduled_time, channel))

\* schedule_reminder's return value: None or the reminder's id.
ScheduleReminderResult(rems, rid, t) ==
    LET existing == GetPendingReminder(rems, t)
    IN  IF ScheduleSkips(tasks[t]) THEN None
        ELSE IF MultiplePending(rems, t) THEN Some("MultipleResultsFound")
        ELSE IF existing /= None THEN existing ELSE Some(rid)

ScheduleReminder(t, channel) ==
    /\ t \in DOMAIN tasks
    /\ \/ ScheduleSkips(tasks[t])
       \/ GetPendingReminder(reminders, t) /= None
       \/ nextReminderId <= MaxReminders
    /\ reminders' = ScheduleReminderTable(reminders, nextReminderId, t, channel)
    /\ nextReminderId' = IF DOMAIN reminders' = DOMAIN reminders
                         THEN nextReminderId ELSE nextReminderId + 1
    /\ UNCHANGED <<tasks, nextTaskId, now>>
    /\ NoSweep
    /\ BackendCall
    /\ NoRecur

\* schedule_reminder calls that run at the same time, each in the session of
\* its own request.
Callers == 1..MaxCallers

\* schedule_reminder up to the return of "await self._get_pending_reminder":
\* the call has computed scheduled_time, compared it with now and read the
\* task's pending reminder; it returns at once where it has nothing to do (or
\* scalar_one_or_none raises).
ScheduleReminderBegin(c, t, channel) ==
    /\ c \notin DOMAIN sched_calls
    /\ t \in DOMAIN tasks
    /\ sched_calls' =
          IF ScheduleSkips(tasks[t]) \/ MultiplePending(reminders, t) THEN sched_calls
          ELSE LET existing == GetPendingReminder(reminders, t)
               IN  Insert(sched_calls, c,
                      [task_id |-> t,
                       user_id |-> tasks[t].user_id,
                       scheduled_time |-> ScheduledTime(tasks[t].due_date,
                                                        tasks[t].reminder_offset_minutes),
                       delivery_channel |-> channel,
                       existing |-> existing,
                       loaded |-> IF existing /= None
                                  THEN Some(reminders[Val(existing)]) ELSE None])
    /\ UNCHANGED <<backendVars, calendarVars, storeVars, brokerVars, answer, wsVars>>

\* The rest of schedule_reminder: the reminder it read is updated (the UPDATE
\* carries the attributes whose value differs from the loaded one; it fails
\* when the row is gone), or a new reminder is inserted (the insert fails
\* when the task is gone and the database enforces the foreign key).
ScheduleReminderCommit(c, enforced) ==
    /\ c \in DOMAIN sched_calls
    /\ LET call == sched_calls[c]
       IN  IF call.existing /= None
           THEN /\ reminders' =
                     IF Val(call.existing) \in DOMAIN reminders
                     THEN Update(reminders, Val(call.existing),
                            [reminders[Val(call.existing)] EXCEPT
                               !.scheduled_time =
                                   IF call.scheduled_time /= Val(call.loaded).scheduled_time
                                   THEN call.scheduled_time ELSE @,
                               !.delivery_channel =
                                   IF call.delivery_channel /= Val(call.loaded).delivery_channel
                                   THEN call.delivery_channel ELSE @])
                     ELSE reminders
                /\ UNCHANGED nextReminderId
           ELSE IF enforced /\ call.task_id \notin DOMAIN tasks
           THEN UNCHANGED <<reminders, nextReminderId>>
           ELSE /\ nextReminderId <= MaxReminders
                /\ reminders' = Insert(reminders, nextReminderId,
                                       NewReminder(call.task_id, call.user_id,
                                                   call.scheduled_time, call.delivery_channel))
                /\ nextReminderId' = nextReminderId + 1
    /\ sched_calls' = Remove(sched_calls, {c})
    /\ UNCHANGED <<tasks, nextTaskId, now>>
    /\ NoSweep
    /\ NoRecur
    /\ UNCHANGED <<calendarVars, storeVars, brokerVars, wsVars>>
    /\ answer' = None

\* Mutant: cancels every reminder of the task whatever its status.
CancelReminderTableAllOfTask(rems, task_id) ==
    [r \in DOMAIN rems |->
        IF rems[r].task_id = task_id THEN [rems[r] EXCEPT !.status = CANCELLED]
        ELSE rems[r]]

\* cancel_reminder(task_id)
CancelReminderTable(rems, task_id) ==
    LET reminder == GetPendingReminder(rems, task_id)
    IN  IF reminder /= None /\ ~MultiplePending(rems, task_id)
        THEN Update(rems, Val(reminder), [rems[Val(reminder)] EXCEPT !.status = CANCELLED])
        ELSE rems

\* cancel_reminder's return value
CancelReminderResult(rems, task_id) == GetPendingReminder(rems, task_id) /= None

CancelReminder(task_id) ==
    /\ reminders' = CancelReminderTable(reminders, task_id)
    /\ UNCHANGED <<tasks, nextTaskId, nextReminderId, now>>
    /\ NoSweep
    /\ BackendCall
    /\ NoRecur

\* Mutant: the retry branch admits retry_count = MAX_RETRY_ATTEMPTS.
DueSetRetryInclusive(rems, include_retries) ==
    {r \in DOMAIN rems :
        \/ rems[r].status = PENDING /\ rems[r].scheduled_time <= now
        \/ /\ include_retries
           /\ rems[r].status = FAILED
           /\ rems[r].retry_count <= MAX_RETRY_ATTEMPTS}

Min(a, b) == IF a <= b THEN a ELSE b

\* get_due_reminders: the rows the WHERE clause selects.
DueSet(rems, include_retries) ==
    {r \in DOMAIN rems :
        \/ rems[r].status = PENDING /\ rems[r].scheduled_time <= now
        \/ /\ include_retries
           /\ rems[r].status = FAILED
           /\ rems[r].retry_count < MAX_RETRY_ATTEMPTS}

\* Mutant: the query without ORDER BY.
GetDueRemindersUnordered(rems, limit, include_retries) ==
    LET due == DueSet(rems, include_retries)
        n == Cardinality(due)
        listed == {s \in [1..n -> due] : \A i, j \in 1..n : i /= j => s[i] /= s[j]}
    IN  {SubSeq(s, 1, Min(limit, n)) : s \in listed}

\* ORDER BY scheduled_time LIMIT limit: every list the database may return
\* (rows with equal scheduled_time come in any order).
GetDueReminders(rems, limit, include_retries) ==
    LET due == DueSet(rems, include_retries)
        n == Cardinality(due)
        ordered == {s \in [1..n -> due] :
                       /\ \A i, j \in 1..n : i /= j => s[i] /= s[j]
                       /\ \A i, j \in 1..n :
                            i < j => rems[s[i]].scheduled_time <= rems[s[j]].scheduled_time}
    IN  {SubSeq(s, 1, Min(limit, n)) : s \in ordered}

\* Mutant: fails the reminder only after MAX_RETRY_ATTEMPTS is exceeded.
MarkFailedRowOffByOne(reminder, error_message) ==
    [reminder EXCEPT
        !.retry_count = @ + 1,
        !.error_message = Some(error_message),
        !.status = IF reminder.retry_count + 1 > MAX_RETRY_ATTEMPTS THEN FAILED ELSE @]

\* _mark_reminder_failed(reminder, error_message): the row afterwards.
MarkFailedRow(reminder, error_message) ==
    [reminder EXCEPT
        !.retry_count = @ + 1,
        !.error_message = Some(error_message),
        !.status = IF reminder.retry_count + 1 >= MAX_RETRY_ATTEMPTS THEN FAILED ELSE @]

\* Mutant: attempt is the retry count, not the number of the attempt.
ReminderDueEventAttemptIsRetryCount(r, reminder, t, task) ==
    [reminder_id |-> r,
     task_id |-> t,
     user_id |-> task.user_id,
     task_title |-> task.title,
     task_due_date |-> Val(task.due_date),
     delivery_channel |-> reminder.delivery_channel,
     attempt |-> reminder.retry_count]

\* ReminderDueData(...) as built by _publish_reminder_event.
ReminderDueEvent(r, reminder, t, task) ==
    [reminder_id |-> r,
     task_id |-> t,
     user_id |-> task.user_id,
     task_title |-> task.title,
     task_due_date |-> Val(task.due_date),
     delivery_channel |-> reminder.delivery_channel,
     attempt |-> reminder.retry_count + 1]

\* _publish_reminder_event raises: ReminderDueData rejects a task without
\* due_date (task_due_date: datetime), or the transport fails (r \in fails).
PublishRaises(r, task, fails) == task.due_date = None \/ r \in fails

\* Mutant: the loop body without the is_complete check.
ProcessReminderIgnoresComplete(acc, r, fails) ==
    LET reminder == acc.rems[r]
        t == reminder.task_id
    IN  IF t \notin DOMAIN tasks
        THEN [acc EXCEPT !.rems[r] = [reminder EXCEPT !.status = CANCELLED,
                                                      !.error_message = Some("Task not found")]]
        ELSE IF PublishRaises(r, tasks[t], fails)
        THEN [acc EXCEPT !.rems[r] = MarkFailedRow(reminder, PublishError)]
        ELSE [acc EXCEPT !.processed = @ + 1,
                         !.events = Append(@, ReminderDueEvent(r, reminder, t, tasks[t]))]

\* One iteration of the loop of process_due_reminders on reminder r.
ProcessReminder(acc, r, fails) ==
    LET reminder == acc.rems[r]
        t == reminder.task_id
    IN  IF t \notin DOMAIN tasks
        THEN [acc EXCEPT !.rems[r] = [reminder EXCEPT !.status = CANCELLED,
                                                      !.error_message = Some("Task not found")]]
        ELSE IF tasks[t].is_complete
        THEN [acc EXCEPT !.rems[r] = [reminder EXCEPT !.status = CANCELLED,
                                                      !.error_message = Some("Task already completed")]]
        ELSE IF PublishRaises(r, tasks[t], fails)
        THEN [acc EXCEPT !.rems[r] = MarkFailedRow(reminder, PublishError)]
        ELSE [acc EXCEPT !.processed = @ + 1,
                         !.events = Append(@, ReminderDueEvent(r, reminder, t, tasks[t]))]

\* Mutant: try/except around the whole loop; the first failing publish is
\* recorded and ends the loop.
RECURSIVE ProcessLoopStopsAtFailure(_, _, _, _)
ProcessLoopStopsAtFailure(due, i, acc, fails) ==
    IF i > Len(due) THEN acc
    ELSE LET next == ProcessReminder(acc, due[i], fails)
         IN  IF next.rems[due[i]].retry_count > acc.rems[due[i]].retry_count THEN next
             ELSE ProcessLoopStopsAtFailure(due, i + 1, next, fails)

RECURSIVE ProcessLoop(_, _, _, _)
ProcessLoop(due, i, acc, fails) ==
    IF i > Len(due) THEN acc
    ELSE ProcessLoop(due, i + 1, ProcessReminder(acc, due[i], fails), fails)

\* Mutant: returns the number of reminders fetched.
ProcessDueRemindersCountsFetched(due, fails) ==
    [ProcessLoop(due, 1, [rems |-> reminders, processed |-> 0, events |-> << >>], fails)
        EXCEPT !.processed = Len(due)]

\* process_due_reminders(): fetch, loop, commit, return processed.
ProcessDueReminders(due, fails) ==
    ProcessLoop(due, 1, [rems |-> reminders, processed |-> 0, events |-> << >>], fails)

Sweep ==
    \E due \in GetDueReminders(reminders, DEFAULT_LIMIT, TRUE) :
    \E fails \in SUBSET {due[i] : i \in 1..Len(due)} :
        LET out == ProcessDueReminders(due, fails)
        IN  /\ reminders' = out.rems
            /\ processed' = out.processed
            /\ published' = out.events
            /\ UNCHANGED <<tasks, nextTaskId, nextReminderId, now>>
            /\ NoRecur
            /\ BackendCall

\* mark_reminder_sent(reminder_id)
\* Mutant: the status is set and the timestamp is not.
MarkSentRowNoTimestamp(reminder) == [reminder EXCEPT !.status = SENT]

MarkSentRow(reminder) == [reminder EXCEPT !.status = SENT, !.sent_at = Some(now)]

\* mark_reminder_sent's and mark_reminder_failed's return value
MarkReminderResult(rems, reminder_id) == reminder_id \in DOMAIN rems

MarkReminderSentTable(rems, reminder_id) ==
    IF reminder_id \in DOMAIN rems
    THEN Update(rems, reminder_id, MarkSentRow(rems[reminder_id]))
    ELSE rems

MarkReminderSent(reminder_id) ==
    /\ reminders' = MarkReminderSentTable(reminders, reminder_id)
    /\ UNCHANGED <<tasks, nextTaskId, nextReminderId, now>>
    /\ NoSweep
    /\ BackendCall
    /\ NoRecur

\* mark_reminder_failed(reminder_id, error_message)
MarkReminderFailedTable(rems, reminder_id, error_message) ==
    IF reminder_id \in DOMAIN rems
    THEN Update(rems, reminder_id, MarkFailedRow(rems[reminder_id], error_message))
    ELSE rems

MarkReminderFailed(reminder_id, error_message) ==
    /\ reminder_id \in DOMAIN reminders => reminders[reminder_id].retry_count < MaxRetryCount
    /\ reminders' = MarkReminderFailedTable(reminders, reminder_id, error_message)
    /\ UNCHANGED <<tasks, nextTaskId, nextReminderId, now>>
    /\ NoSweep
    /\ BackendCall
    /\ NoRecur

\* ------------------------------------------- scheduler and consumer handlers

\* Events on the reminder.due topic that carry reminder r.
EventsOf(r) == {i \in DOMAIN topic : topic[i].reminder_id = r}

\* handle_reminder_scheduler: the cron binding calls process_due_reminders;
\* what it publishes goes to the reminder.due topic.
ReminderScheduler ==
    \E due \in GetDueReminders(reminders, DEFAULT_LIMIT, TRUE) :
    \E fails \in SUBSET {due[i] : i \in 1..Len(due)} :
        LET out == ProcessDueReminders(due, fails)
        IN  /\ \A k \in 1..Len(out.events) :
                  Cardinality(EventsOf(out.events[k].reminder_id)) < MaxPublished
            /\ reminders' = out.rems
            /\ processed' = out.processed
            /\ published' = out.events
            /\ topic' = topic \o out.events
            /\ UNCHANGED <<tasks, nextTaskId, nextReminderId, now>>
            /\ NoRecur
            /\ answer' = None
            /\ UNCHANGED <<calendarVars, storeVars, sched_calls, acked, handling, dlq, wsVars>>

SUCCESS == "SUCCESS"
RETRY == "RETRY"
DROP == "DROP"

\* Outcomes of _deliver_reminder_notification: None, or Some(str(delivery_error)).
Deliveries == {None} \cup {Some(e) : e \in DeliveryErrors}

\* Mutant: the handler's mark_reminder_failed fails the reminder one attempt late.
HandlerMarkTableOffByOne(rems, reminder_id, loaded, delivery) ==
    IF reminder_id \notin DOMAIN rems THEN rems
    ELSE IF delivery = None THEN Update(rems, reminder_id, MarkSentRow(rems[reminder_id]))
    ELSE Update(rems, reminder_id, MarkFailedRowOffByOne(rems[reminder_id], Val(delivery)))

\* handle_reminder_due from the delivery on: mark_reminder_sent or
\* mark_reminder_failed in the handler's session, which holds the reminder as
\* the handler loaded it (sessions are made with expire_on_commit=False and a
\* select does not refresh a loaded object): the UPDATE carries the
\* attributes the call changed on that object.
HandlerMarkTable(rems, reminder_id, loaded, delivery) ==
    IF reminder_id \notin DOMAIN rems THEN rems
    ELSE IF delivery = None THEN Update(rems, reminder_id, MarkSentRow(rems[reminder_id]))
    ELSE Update(rems, reminder_id,
            [rems[reminder_id] EXCEPT
                !.retry_count = loaded.retry_count + 1,
                !.error_message = IF delivery /= loaded.error_message THEN delivery ELSE @,
                !.status = IF loaded.retry_count + 1 >= MAX_RETRY_ATTEMPTS THEN FAILED ELSE @])

\* The reminder as the handler sees it after mark_reminder_failed
\* (handlers.py:158): None when the row is gone.
HandlerView(rems, reminder_id, loaded, delivery) ==
    IF reminder_id \notin DOMAIN rems THEN None
    ELSE Some(MarkFailedRow(loaded, Val(delivery)))

\* Mutant: every failed delivery is dead-lettered.
HandlerDeadLettersAlways(rems, reminder_id, loaded, delivery) ==
    delivery /= None /\ reminder_id \in DOMAIN rems

\* "if reminder and reminder.status == ReminderStatus.FAILED"
HandlerDeadLetters(rems, reminder_id, loaded, delivery) ==
    IF delivery = None THEN FALSE
    ELSE LET reminder == HandlerView(rems, reminder_id, loaded, delivery)
         IN  IF reminder = None THEN FALSE ELSE Val(reminder).status = FAILED

\* dlq_data of _send_to_dlq
DlqData(event, error_message) ==
    [original_topic |-> "reminder.due",
     reminder_id |-> event.reminder_id,
     task_id |-> event.task_id,
     user_id |-> event.user_id,
     error |-> error_message,
     attempts |-> event.attempt]

\* What handle_reminder_due returns after the delivery; a publish to the
\* dead-letter topic that raises ends in the outer except.
HandlerAnswer(rems, reminder_id, loaded, delivery, dlq_raises) ==
    IF delivery = None THEN SUCCESS
    ELSE LET reminder == HandlerView(rems, reminder_id, loaded, delivery)
         IN  IF HandlerDeadLetters(rems, reminder_id, loaded, delivery) /\ dlq_raises
             THEN RETRY
             ELSE IF reminder /= None /\ Val(reminder).retry_count < 3 THEN RETRY
             ELSE DROP

\* The handler from the delivery to its return, for the event at position i
\* and the reminder as loaded at handlers.py:134.
HandlerFinish(i, loaded, delivery, dlq_raises) ==
    LET reminder_id == topic[i].reminder_id
        status == HandlerAnswer(reminders, reminder_id, loaded, delivery, dlq_raises)
    IN  /\ reminders' = HandlerMarkTable(reminders, reminder_id, loaded, delivery)
        /\ dlq' = IF HandlerDeadLetters(reminders, reminder_id, loaded, delivery)
                     /\ ~dlq_raises
                  THEN Append(dlq, DlqData(topic[i], Val(delivery)))
                  ELSE dlq
        /\ answer' = Some([position |-> i, status |-> status])
        /\ acked' = IF status = RETRY THEN acked ELSE acked \cup {i}

\* The handler returns before the delivery: the reminder is gone (DROP) or
\* is not Pending (SUCCESS).
HandlerSkips(i) ==
    IF topic[i].reminder_id \notin DOMAIN reminders THEN TRUE
    ELSE reminders[topic[i].reminder_id].status /= PENDING

HandlerSkip(i) ==
    /\ answer' = Some([position |-> i,
                       status |-> IF topic[i].reminder_id \notin DOMAIN reminders
                                  THEN DROP ELSE SUCCESS])
    /\ acked' = acked \cup {i}
    /\ UNCHANGED <<reminders, dlq>>

\* handle_reminder_due on the event at position i of the topic, run from
\* start to end with no other request in between.
HandleReminderDue(i, delivery, dlq_raises) ==
    /\ i \in DOMAIN topic \ acked
    /\ i \notin DOMAIN handling
    /\ IF HandlerSkips(i) THEN HandlerSkip(i)
       ELSE HandlerFinish(i, reminders[topic[i].reminder_id], delivery, dlq_raises)
    /\ UNCHANGED <<tasks, nextTaskId, nextReminderId, now, topic, handling>>
    /\ NoSweep
    /\ NoRecur
    /\ UNCHANGED <<calendarVars, storeVars, sched_calls, wsVars>>

\* handle_reminder_due up to "await _deliver_reminder_notification".
HandleReminderDueBegin(i) ==
    /\ i \in DOMAIN topic \ acked
    /\ i \notin DOMAIN handling
    /\ IF HandlerSkips(i)
       THEN HandlerSkip(i) /\ UNCHANGED handling
       ELSE /\ handling' = Insert(handling, i, reminders[topic[i].reminder_id])
            /\ answer' = None
            /\ UNCHANGED <<reminders, dlq, acked>>
    /\ UNCHANGED <<tasks, nextTaskId, nextReminderId, now, topic>>
    /\ NoSweep
    /\ NoRecur
    /\ UNCHANGED <<calendarVars, storeVars, sched_calls, wsVars>>

\* handle_reminder_due from the return of the delivery on.
HandleReminderDueEnd(i, delivery, dlq_raises) ==
    /\ i \in DOMAIN handling
    /\ HandlerFinish(i, handling[i], delivery, dlq_raises)
    /\ handling' = Remove(handling, {i})
    /\ UNCHANGED <<tasks, nextTaskId, nextReminderId, now, topic>>
    /\ NoSweep
    /\ NoRecur
    /\ UNCHANGED <<calendarVars, storeVars, sched_calls, wsVars>>

\* -------------------------------------------------------- calendar, datetime
\* A datetime d is day d \div MinutesPerDay (day 0 is 0001-01-01, a Monday)
\* and minute d % MinutesPerDay of that day.
MinutesPerDay == 1440

\* calendar.isleap(year)
IsLeap(year) == year % 4 = 0 /\ (year % 100 /= 0 \/ year % 400 = 0)

\* calendar.monthrange(year, month)[1]
DaysInMonth(year, month) ==
    IF month = 2 THEN (IF IsLeap(year) THEN 29 ELSE 28)
    ELSE IF month \in {4, 6, 9, 11} THEN 30 ELSE 31

\* Days before January 1st of year; days of year before the 1st of month.
DaysBeforeYear(year) ==
    LET y == year - 1 IN y * 365 + y \div 4 - y \div 100 + y \div 400

DaysBeforeMonth(year, month) ==
    (IF month <= 12
     THEN <<0, 31, 59, 90, 120, 151, 181, 212, 243, 273, 304, 334>>[month]
     ELSE 334 + 31 * (month - 11))
    + (IF month > 2 /\ IsLeap(year) THEN 1 ELSE 0)

\* date.toordinal(): 0001-01-01 is day 1.
ToOrdinal(year, month, day) == DaysBeforeYear(year) + DaysBeforeMonth(year, month) + day

Ordinal(d) == d \div MinutesPerDay + 1

\* d.year, d.month, d.day, d.weekday() (Monday is 0)
Year(d) ==
    LET n == Ordinal(d)
        guess == (n * 400) \div 146097 + 1
    IN  CHOOSE y \in (guess - 1)..(guess + 1) :
            DaysBeforeYear(y) < n /\ n <= DaysBeforeYear(y + 1)

Month(d) ==
    LET y == Year(d)
        n == Ordinal(d) - DaysBeforeYear(y)
    IN  CHOOSE m \in 1..12 :
            DaysBeforeMonth(y, m) < n /\ n <= DaysBeforeMonth(y, m) + DaysInMonth(y, m)

Day(d) == Ordinal(d) - DaysBeforeYear(Year(d)) - DaysBeforeMonth(Year(d), Month(d))

Weekday(d) == (Ordinal(d) + 6) % 7

\* Mutant: a new date at midnight.
ReplaceAtMidnight(d, year, month, day) ==
    (ToOrdinal(year, month, day) - 1) * MinutesPerDay

\* d.replace(year=..., month=..., day=...): the time of day is kept.
Replace(d, year, month, day) ==
    (ToOrdinal(year, month, day) - 1) * MinutesPerDay + (d % MinutesPerDay)

\* ------------------------------------------------------- RecurrenceService
DAILY == "daily"
WEEKLY == "weekly"
MONTHLY == "monthly"
YEARLY == "yearly"
CUSTOM == "custom"

\* Mutant: every pattern is stored under one owner.
NewPatternSharedOwner(user_id, recurrence) ==
    [type |-> recurrence.type,
     interval |-> recurrence.interval,
     days_of_week |-> recurrence.days_of_week,
     day_of_month |-> recurrence.day_of_month,
     month_of_year |-> None,
     end_date |-> recurrence.end_date,
     user_id |-> "u1"]

\* RecurrencePattern(...) as create_task builds it (month_of_year is not passed).
NewPattern(user_id, recurrence) ==
    [type |-> recurrence.type,
     interval |-> recurrence.interval,
     days_of_week |-> recurrence.days_of_week,
     day_of_month |-> recurrence.day_of_month,
     month_of_year |-> None,
     end_date |-> recurrence.end_date,
     user_id |-> user_id]

\* Mutant: the first day counted is from_date itself.
NextDailyCountsToday(from_date, interval) == from_date + (interval - 1) * MinutesPerDay

\* _next_daily
NextDaily(from_date, interval) == from_date + interval * MinutesPerDay

SetMin(S) == CHOOSE x \in S : \A y \in S : x <= y

\* Mutant: the interval is applied to a day later in the same week too.
NextWeeklyAlwaysInterval(from_date, interval, days_of_week) ==
    IF days_of_week = None \/ Val(days_of_week) = << >>
    THEN from_date + interval * 7 * MinutesPerDay
    ELSE LET days == {Val(days_of_week)[i] : i \in 1..Len(Val(days_of_week))}
             current_weekday == Weekday(from_date)
             later == {day \in days : day > current_weekday}
             days_until_monday == IF (7 - current_weekday) % 7 = 0
                                  THEN 7 ELSE (7 - current_weekday) % 7
             next_week_start == from_date
                                + (days_until_monday + 7 * (interval - 1)) * MinutesPerDay
         IN  IF later /= {}
             THEN from_date + (SetMin(later) - current_weekday + 7 * (interval - 1))
                              * MinutesPerDay
             ELSE next_week_start + SetMin(days) * MinutesPerDay

\* Mutant: days_until_monday without "or 7".
NextWeeklyMondayIsToday(from_date, interval, days_of_week) ==
    IF days_of_week = None \/ Val(days_of_week) = << >>
    THEN from_date + interval * 7 * MinutesPerDay
    ELSE LET days == {Val(days_of_week)[i] : i \in 1..Len(Val(days_of_week))}
             current_weekday == Weekday(from_date)
             later == {day \in days : day > current_weekday}
             days_until_monday == (7 - current_weekday) % 7
             next_week_start == from_date
                                + (days_until_monday + 7 * (interval - 1)) * MinutesPerDay
         IN  IF later /= {}
             THEN from_date + (SetMin(later) - current_weekday) * MinutesPerDay
             ELSE next_week_start + SetMin(days) * MinutesPerDay

\* _next_weekly; days_of_week is None or Some(list of weekdays).
NextWeekly(from_date, interval, days_of_week) ==
    IF days_of_week = None \/ Val(days_of_week) = << >>
    THEN from_date + interval * 7 * MinutesPerDay
    ELSE LET days == {Val(days_of_week)[i] : i \in 1..Len(Val(days_of_week))}
             current_weekday == Weekday(from_date)
             later == {day \in days : day > current_weekday}
             days_until_monday == IF (7 - current_weekday) % 7 = 0
                                  THEN 7 ELSE (7 - current_weekday) % 7
             next_week_start == from_date
                                + (days_until_monday + 7 * (interval - 1)) * MinutesPerDay
         IN  IF later /= {}
             THEN from_date + (SetMin(later) - current_weekday) * MinutesPerDay
             ELSE next_week_start + SetMin(days) * MinutesPerDay

\* Mutant: "if month > 12" in place of the loop.
RolloverOnce(year, month) ==
    IF month > 12 THEN <<year + 1, month - 12>> ELSE <<year, month>>

\* while month > 12: month -= 12; year += 1
RECURSIVE Rollover(_, _)
Rollover(year, month) ==
    IF month > 12 THEN Rollover(year + 1, month - 12) ELSE <<year, month>>

\* Mutant: the target day is not clamped to the month's last day.
MonthlyTargetUnclamped(from_date, interval, day_of_month) ==
    LET target_day == IF day_of_month /= None THEN Val(day_of_month) ELSE Day(from_date)
        ym == Rollover(Year(from_date), Month(from_date) + interval)
    IN  <<ym[1], ym[2], target_day>>

\* _next_monthly: the year, month and day it passes to from_date.replace.
MonthlyTarget(from_date, interval, day_of_month) ==
    LET target_day == IF day_of_month /= None THEN Val(day_of_month) ELSE Day(from_date)
        ym == Rollover(Year(from_date), Month(from_date) + interval)
        last_day == DaysInMonth(ym[1], ym[2])
    IN  <<ym[1], ym[2], Min(target_day, last_day)>>

\* _next_monthly
NextMonthly(from_date, interval, day_of_month) ==
    LET ymd == MonthlyTarget(from_date, interval, day_of_month)
    IN  Replace(from_date, ymd[1], ymd[2], ymd[3])

\* Mutant: month_of_year is not read.
YearlyTargetSameMonth(from_date, interval, month_of_year, day_of_month) ==
    LET target_year == Year(from_date) + interval
        target_month == Month(from_date)
        day == IF day_of_month /= None THEN Val(day_of_month) ELSE Day(from_date)
        target_day == IF target_month = 2 /\ day = 29 /\ ~IsLeap(target_year)
                      THEN 28 ELSE day
        last_day == DaysInMonth(target_year, target_month)
    IN  <<target_year, target_month, Min(target_day, last_day)>>

\* _next_yearly: the year, month and day it passes to from_date.replace.
YearlyTarget(from_date, interval, month_of_year, day_of_month) ==
    LET target_year == Year(from_date) + interval
        target_month == IF month_of_year /= None THEN Val(month_of_year)
                        ELSE Month(from_date)
        day == IF day_of_month /= None THEN Val(day_of_month) ELSE Day(from_date)
        target_day == IF target_month = 2 /\ day = 29 /\ ~IsLeap(target_year)
                      THEN 28 ELSE day
        last_day == DaysInMonth(target_year, target_month)
    IN  <<target_year, target_month, Min(target_day, last_day)>>

\* _next_yearly
NextYearly(from_date, interval, month_of_year, day_of_month) ==
    LET ymd == YearlyTarget(from_date, interval, month_of_year, day_of_month)
    IN  Replace(from_date, ymd[1], ymd[2], ymd[3])

\* _calculate_next_date
CalculateNextDate(pattern, from_date) ==
    CASE pattern.type = DAILY -> NextDaily(from_date, pattern.interval)
      [] pattern.type = WEEKLY ->
            NextWeekly(from_date, pattern.interval, pattern.days_of_week)
      [] pattern.type = MONTHLY ->
            NextMonthly(from_date, pattern.interval, pattern.day_of_month)
      [] pattern.type = YEARLY ->
            NextYearly(from_date, pattern.interval, pattern.month_of_year,
                       pattern.day_of_month)
      [] pattern.type = CUSTOM -> NextDaily(from_date, pattern.interval)

\* Mutant: the computed date is not compared with end_date.
CalculateNextOccurrenceNoOvershootCheck(pattern, from_date) ==
    IF pattern.end_date /= None /\ from_date >= Val(pattern.end_date) THEN None
    ELSE Some(CalculateNextDate(pattern, from_date))

\* calculate_next_occurrence: None once the recurrence has ended.
CalculateNextOccurrence(pattern, from_date) ==
    IF pattern.end_date /= None /\ from_date >= Val(pattern.end_date) THEN None
    ELSE LET next_date == CalculateNextDate(pattern, from_date)
         IN  IF pattern.end_date /= None /\ next_date > Val(pattern.end_date)
             THEN None
             ELSE Some(next_date)

\* datetime(year, month, day, hour, minute)
DateTime(year, month, day, hour, minute) ==
    (ToOrdinal(year, month, day) - 1) * MinutesPerDay + hour * 60 + minute

\* from_date arguments: the days of the week of 2024-01-01 (a Monday), month
\* ends, leap days, and a January in a century year that is not a leap year.
CalendarDates ==
    {DateTime(2024, 1, d, 9, 30) : d \in 1..7}
    \cup {DateTime(2024, 1, 30, 10, 0), DateTime(2023, 1, 30, 10, 0),
          DateTime(2024, 1, 31, 0, 0), DateTime(2024, 2, 29, 23, 59),
          DateTime(2023, 2, 28, 12, 0), DateTime(2023, 12, 31, 18, 45),
          DateTime(2024, 11, 30, 8, 0), DateTime(2100, 1, 31, 7, 15)}

\* interval: RecurrenceCreate allows 1..365.
CalendarIntervals == 1..MaxInterval \cup {25, 365}

CalendarEndDates ==
    {None, Some(DateTime(2024, 2, 29, 0, 0)), Some(DateTime(2024, 12, 31, 23, 59))}

CalendarDaysOfWeek == {None, Some(<< >>), Some(<<0>>), Some(<<6>>), Some(<<0, 2, 4>>),
                       Some(<<4, 1>>)}

CalendarDaysOfMonth == {None, Some(1), Some(29), Some(30), Some(31)}

CalendarMonths == {None, Some(2), Some(4), Some(12)}

\* A RecurrencePattern row as calculate_next_occurrence reads it.
Pattern(type, interval, days_of_week, day_of_month, month_of_year, end_date) ==
    [type |-> type, interval |-> interval, days_of_week |-> days_of_week,
     day_of_month |-> day_of_month, month_of_year |-> month_of_year,
     end_date |-> end_date, user_id |-> "u1"]

\* pattern arguments; a field the pattern's type does not read is left unset.
CalendarPatterns ==
    {Pattern(type, i, None, None, None, e) :
        type \in {DAILY, CUSTOM}, i \in CalendarIntervals, e \in CalendarEndDates}
    \cup {Pattern(WEEKLY, i, dow, None, None, e) :
        i \in CalendarIntervals, dow \in CalendarDaysOfWeek, e \in CalendarEndDates}
    \cup {Pattern(MONTHLY, i, None, dom, None, e) :
        i \in CalendarIntervals, dom \in CalendarDaysOfMonth, e \in CalendarEndDates}
    \cup {Pattern(YEARLY, i, None, dom, moy, e) :
        i \in CalendarIntervals, dom \in CalendarDaysOfMonth, moy \in CalendarMonths,
        e \in CalendarEndDates}

\* The from_date of call k: the argument of the first call, then the date the
\* call before returned (generate_next_task makes it the next due_date).
CalFrom(k) == IF k = 1 THEN cal_from_date ELSE Val(cal_results[k - 1])

\* await calculate_next_occurrence(pattern, from_date)
Calculate ==
    /\ Len(cal_results) < MaxCalls
    /\ cal_pattern /= None
    /\ IF cal_results = << >> THEN TRUE ELSE cal_results[Len(cal_results)] /= None
    /\ cal_results' = Append(cal_results,
                             CalculateNextOccurrence(cal_pattern,
                                                     CalFrom(Len(cal_results) + 1)))
    /\ UNCHANGED <<cal_pattern, cal_from_date, backendVars, storeVars, sched_calls, brokerVars, answer, wsVars>>

\* The latest task of a series is completed and handle_task_events has
\* generate_next_task compute its successor's due date from the task's own
\* (cal_from_date): the successor, with that due date, is the latest task from
\* then on; None ends the series.  A series without end_date is followed for
\* one step.
CompleteLatest ==
    /\ cal_pattern /= None
    /\ IF cal_results = << >> THEN TRUE
       ELSE cal_results[1] /= None /\ cal_pattern.end_date /= None
    /\ \E next_due_date \in {CalculateNextOccurrence(cal_pattern, cal_from_date)} :
           /\ cal_results' = <<next_due_date>>
           /\ cal_from_date' = IF next_due_date = None THEN cal_from_date
                               ELSE Val(next_due_date)
    /\ UNCHANGED <<cal_pattern, backendVars, storeVars, sched_calls, brokerVars, answer, wsVars>>

\* _get_pattern
GetPattern(pattern_id) ==
    IF pattern_id \in DOMAIN patterns THEN Some(patterns[pattern_id]) ELSE None

\* Mutant: the end of the series is not looked at.
NextDueDateIgnoresEnd(t) ==
    LET completed_task == tasks[t]
        pattern == IF completed_task.recurrence_id = None THEN None
                   ELSE GetPattern(Val(completed_task.recurrence_id))
        reference_date == IF completed_task.due_date /= None
                          THEN Val(completed_task.due_date) ELSE now
    IN  IF pattern = None THEN None
        ELSE Some(CalculateNextDate(Val(pattern), reference_date))

\* generate_next_task(completed_task): the due date of the task it creates,
\* None when it creates none.
NextDueDate(t) ==
    LET completed_task == tasks[t]
        pattern == IF completed_task.recurrence_id = None THEN None
                   ELSE GetPattern(Val(completed_task.recurrence_id))
        reference_date == IF completed_task.due_date /= None
                          THEN Val(completed_task.due_date) ELSE now
    IN  IF pattern = None THEN None
        ELSE CalculateNextOccurrence(Val(pattern), reference_date)

\* Mutant: description and priority are left at the column defaults.
GeneratedTaskDefaults(t, next_due_date) ==
    LET completed_task == tasks[t]
    IN  NewTask(completed_task.user_id, completed_task.title, "", "medium",
                Some(next_due_date),
                completed_task.reminder_offset_minutes, completed_task.recurrence_id,
                IF completed_task.parent_task_id /= None
                THEN completed_task.parent_task_id ELSE Some(t))

\* Task(...) as generate_next_task builds it.
GeneratedTask(t, next_due_date) ==
    LET completed_task == tasks[t]
    IN  NewTask(completed_task.user_id, completed_task.title,
                completed_task.description, completed_task.priority, Some(next_due_date),
                completed_task.reminder_offset_minutes, completed_task.recurrence_id,
                IF completed_task.parent_task_id /= None
                THEN completed_task.parent_task_id ELSE Some(t))

\* generate_next_task(completed_task) on the tasks table: at most one insert,
\* logged as "Generated next occurrence".
GenerateNextTaskTables(t) ==
    IF NextDueDate(t) /= None
    THEN /\ Cardinality(generated) < MaxGenerated
         /\ tasks' = Insert(tasks, nextTaskId, GeneratedTask(t, Val(NextDueDate(t))))
         /\ nextTaskId' = nextTaskId + 1
         /\ generated' = generated \cup {<<t, nextTaskId>>}
    ELSE UNCHANGED <<tasks, nextTaskId, generated>>

\* generate_next_task's return value: None or the new task's id.
GenerateNextTaskResult(t) ==
    IF NextDueDate(t) /= None THEN Some(nextTaskId) ELSE None

\* Mutant: generate_next_task also schedules the new task's reminder.
GenerateNextTaskSchedules(t) ==
    /\ t \in DOMAIN tasks
    /\ GenerateNextTaskTables(t)
    /\ IF NextDueDate(t) /= None /\ nextReminderId <= MaxReminders
       THEN /\ reminders' = Insert(reminders, nextReminderId,
                                   NewReminder(nextTaskId, tasks[t].user_id,
                                               Val(NextDueDate(t)), "in-app"))
            /\ nextReminderId' = nextReminderId + 1
       ELSE UNCHANGED <<reminders, nextReminderId>>
    /\ UNCHANGED <<now, patterns, nextPatternId>>
    /\ NoSweep
    /\ BackendCall

\* generate_next_task(completed_task), called on its own with a stored task.
GenerateNextTask(t) ==
    /\ t \in DOMAIN tasks
    /\ GenerateNextTaskTables(t)
    /\ UNCHANGED <<reminders, nextReminderId, now, patterns, nextPatternId>>
    /\ NoSweep
    /\ BackendCall

\* handle_task_events on a task.completed event for task t: cancel_reminder,
\* then generate_next_task when the task is there and recurring.  Two pending
\* reminders make cancel_reminder raise, and the event is left for a retry.
HandleTaskCompleted(t) ==
    /\ ~MultiplePending(reminders, t)
    /\ reminders' = CancelReminderTable(reminders, t)
    /\ IF t \in DOMAIN tasks
       THEN IF tasks[t].recurrence_id /= None
            THEN GenerateNextTaskTables(t)
            ELSE UNCHANGED <<tasks, nextTaskId, generated>>
       ELSE UNCHANGED <<tasks, nextTaskId, generated>>
    /\ UNCHANGED <<nextReminderId, now, patterns, nextPatternId>>
    /\ NoSweep
    /\ BackendCall

\* delete_pattern(pattern_id, user_id).  tasks.recurrence_id is ON DELETE SET
\* NULL where the database enforces foreign keys.
\* Mutant: the caller is not compared with the pattern's owner.
DeletePatternResultAnyUser(pats, pattern_id, user_id) == pattern_id \in DOMAIN pats

\* delete_pattern's return value: False when the pattern is not found or is
\* not the caller's.
DeletePatternResult(pats, pattern_id, user_id) ==
    IF pattern_id \notin DOMAIN pats THEN FALSE
    ELSE pats[pattern_id].user_id = user_id

\* delete_pattern: the recurrence_patterns table afterwards.
DeletePatternTable(pats, pattern_id, user_id) ==
    IF DeletePatternResult(pats, pattern_id, user_id)
    THEN Remove(pats, {pattern_id}) ELSE pats

DeletePattern(pattern_id, user_id, enforced) ==
    /\ patterns' = DeletePatternTable(patterns, pattern_id, user_id)
    /\ tasks' = IF enforced /\ DeletePatternResult(patterns, pattern_id, user_id)
                THEN [t \in DOMAIN tasks |->
                        IF tasks[t].recurrence_id = Some(pattern_id)
                        THEN [tasks[t] EXCEPT !.recurrence_id = None]
                        ELSE tasks[t]]
                ELSE tasks
    /\ UNCHANGED <<nextTaskId, reminders, nextReminderId, now, nextPatternId, generated>>
    /\ NoSweep
    /\ BackendCall

\* ------------------------------------------------------------ task service

\* create_task(session, user_id, data); recurrence is data.recurrence, None
\* or Some(pattern fields).
CreateTask(user_id, title, description, priority, due_date, offset, recurrence) ==
    /\ nextTaskId <= NumTasks
    /\ IF recurrence /= None
       THEN /\ nextPatternId <= MaxPatterns
            /\ patterns' = Insert(patterns, nextPatternId, NewPattern(user_id, Val(recurrence)))
            /\ nextPatternId' = nextPatternId + 1
       ELSE UNCHANGED <<patterns, nextPatternId>>
    /\ tasks' = Insert(tasks, nextTaskId,
                       NewTask(user_id, title, description, priority, due_date, offset,
                               IF recurrence /= None THEN Some(nextPatternId) ELSE None,
                               None))
    /\ nextTaskId' = nextTaskId + 1
    /\ IF due_date /= None /\ offset /= None
       THEN /\ nextReminderId <= MaxReminders
            /\ reminders' = Insert(reminders, nextReminderId,
                                   NewReminder(nextTaskId, user_id,
                                               ScheduledTime(due_date, offset), "in-app"))
            /\ nextReminderId' = nextReminderId + 1
       ELSE UNCHANGED <<reminders, nextReminderId>>
    /\ UNCHANGED <<now, generated>>
    /\ NoSweep
    /\ BackendCall

\* update_task(session, task_id, user_id, data) by the task's owner.
UpdateTask(t, due_date, offset) ==
    /\ t \in DOMAIN tasks
    /\ tasks' = Update(tasks, t, [tasks[t] EXCEPT !.due_date = due_date,
                                                  !.reminder_offset_minutes = offset])
    /\ IF due_date /= None /\ offset /= None /\ ~MultiplePending(reminders, t)
       THEN LET existing == GetPendingReminder(reminders, t)
            IN  IF existing /= None
                THEN /\ reminders' = Update(reminders, Val(existing),
                            [reminders[Val(existing)] EXCEPT
                                !.scheduled_time = ScheduledTime(due_date, offset)])
                     /\ UNCHANGED nextReminderId
                ELSE /\ nextReminderId <= MaxReminders
                     /\ reminders' = Insert(reminders, nextReminderId,
                            NewReminder(t, tasks[t].user_id,
                                        ScheduledTime(due_date, offset), "in-app"))
                     /\ nextReminderId' = nextReminderId + 1
       ELSE UNCHANGED <<reminders, nextReminderId>>
    /\ UNCHANGED <<nextTaskId, now>>
    /\ NoSweep
    /\ BackendCall
    /\ NoRecur

\* patch_task(session, task_id, user_id, data) by the task's owner; a field
\* of data that is None is left as it is.
PatchTask(t, is_complete, due_date, offset) ==
    /\ t \in DOMAIN tasks
    /\ tasks' = Update(tasks, t,
            [tasks[t] EXCEPT
                !.is_complete = IF is_complete /= None THEN Val(is_complete) ELSE @,
                !.due_date = IF due_date /= None THEN due_date ELSE @,
                !.reminder_offset_minutes = IF offset /= None THEN offset ELSE @])
    /\ UNCHANGED <<nextTaskId, reminders, nextReminderId, now>>
    /\ NoSweep
    /\ BackendCall
    /\ NoRecur

\* toggle_task(session, task_id, user_id) by the task's owner.
ToggleTask(t) ==
    /\ t \in DOMAIN tasks
    /\ tasks' = Update(tasks, t, [tasks[t] EXCEPT !.is_complete = ~@])
    /\ reminders' = IF ~tasks[t].is_complete
                    THEN [r \in DOMAIN reminders |->
                            IF r \in PendingReminders(reminders, t)
                            THEN [reminders[r] EXCEPT !.status = CANCELLED]
                            ELSE reminders[r]]
                    ELSE reminders
    /\ UNCHANGED <<nextTaskId, nextReminderId, now>>
    /\ NoSweep
    /\ BackendCall
    /\ NoRecur

\* delete_task(session, task_id, user_id) by the task's owner.  The
\* reminders' foreign key is ON DELETE CASCADE and tasks.parent_task_id is ON
\* DELETE SET NULL: where the database enforces foreign keys (PostgreSQL) the
\* task's reminders go with it and its successors lose their parent_task_id;
\* where it does not (SQLite, the tests' database) both stay as they are.
DeleteTask(t, cascade) ==
    /\ t \in DOMAIN tasks
    /\ tasks' = IF cascade
                THEN [c \in DOMAIN tasks \ {t} |->
                        IF tasks[c].parent_task_id = Some(t)
                        THEN [tasks[c] EXCEPT !.parent_task_id = None]
                        ELSE tasks[c]]
                ELSE Remove(tasks, {t})
    /\ reminders' = IF cascade
                    THEN Remove(reminders, {r \in DOMAIN reminders : reminders[r].task_id = t})
                    ELSE reminders
    /\ UNCHANGED <<nextTaskId, nextReminderId, now>>
    /\ NoSweep
    /\ BackendCall
    /\ NoRecur

\* ------------------------------------------------------------------- clock
Tick ==
    /\ now < MaxTime
    /\ now' = now + 1
    /\ UNCHANGED <<tasks, nextTaskId, reminders, nextReminderId>>
    /\ NoSweep
    /\ BackendCall
    /\ NoRecur

\* ----------------------------------------------------------- specification
\* The backend after start-up, before any request.
BackendInit ==
    /\ tasks = << >>
    /\ nextTaskId = 1
    /\ reminders = << >>
    /\ nextReminderId = 1
    /\ now = 0
    /\ processed = 0
    /\ published = << >>
    /\ patterns = << >>
    /\ nextPatternId = 1
    /\ generated = {}

\* No stand-alone calculation.
CalendarIdle ==
    /\ cal_pattern = None
    /\ cal_from_date = 0
    /\ cal_results = << >>

\* TaskStore.__init__
StoreInit ==
    /\ store_tasks = << >>
    /\ store_next_id = 1
    /\ handed_out = << >>

\* No call in flight, nothing published, nothing consumed.
BrokerInit ==
    /\ sched_calls = << >>
    /\ topic = << >>
    /\ acked = {}
    /\ handling = << >>
    /\ dlq = << >>
    /\ answer = None

\* WebSocketManager.__init__
WsInit == ws_connections = << >> /\ failed_connections = None

Init == BackendInit /\ CalendarIdle /\ StoreInit /\ BrokerInit /\ WsInit

\* calculate_next_occurrence on every pattern and from_date of the input sets.
InitCalendar ==
    /\ BackendInit
    /\ StoreInit
    /\ BrokerInit
    /\ WsInit
    /\ cal_pattern \in CalendarPatterns
    /\ cal_from_date \in CalendarDates
    /\ cal_results = << >>

\* The reminder service under any sequence of calls, on tasks the task
\* service creates, completes and deletes.
Next ==
    \/ \E u \in Users, ti \in Titles, de \in Descriptions, pr \in Priorities,
          d \in DueDates, o \in Offsets :
            CreateTask(u, ti, de, pr, d, o, None)
    \/ \E t \in TaskIds, c \in {Some(TRUE), Some(FALSE)} : PatchTask(t, c, None, None)
    \/ \E t \in TaskIds : ToggleTask(t)
    \/ \E t \in TaskIds, cascade \in BOOLEAN : DeleteTask(t, cascade)
    \/ \E t \in TaskIds, c \in Channels : ScheduleReminder(t, c)
    \/ \E t \in TaskIds : CancelReminder(t)
    \/ \E r \in ReminderIds : MarkReminderSent(r)
    \/ \E r \in ReminderIds, e \in DeliveryErrors : MarkReminderFailed(r, e)
    \/ Sweep
    \/ Tick

Spec == Init /\ [][Next]_vars

\* The sweep on tasks that are also edited (update_task) while their
\* reminders wait.
NextTasks ==
    \/ \E u \in Users, ti \in Titles, de \in Descriptions, pr \in Priorities,
          d \in DueDates, o \in Offsets :
            CreateTask(u, ti, de, pr, d, o, None)
    \/ \E t \in TaskIds, d \in DueDates, o \in Offsets : UpdateTask(t, d, o)
    \/ \E t \in TaskIds : ToggleTask(t)
    \/ \E t \in TaskIds, cascade \in BOOLEAN : DeleteTask(t, cascade)
    \/ Sweep
    \/ Tick

SpecTasks == Init /\ [][NextTasks]_vars

\* data.recurrence of create_task: every day; Mondays and Wednesdays; the
\* 31st of every month; every day until the end of day 1.
RecurrenceInputs ==
    {[type |-> DAILY, interval |-> 1, days_of_week |-> None, day_of_month |-> None,
      end_date |-> None],
     [type |-> WEEKLY, interval |-> 1, days_of_week |-> Some(<<0, 2>>),
      day_of_month |-> None, end_date |-> None],
     [type |-> MONTHLY, interval |-> 1, days_of_week |-> None,
      day_of_month |-> Some(31), end_date |-> None],
     [type |-> DAILY, interval |-> 1, days_of_week |-> None, day_of_month |-> None,
      end_date |-> Some(2 * MinutesPerDay)]}

\* Recurring tasks: created, completed and un-completed, deleted, their
\* patterns deleted, and task.completed events delivered any number of times.
NextRecur ==
    \/ \E u \in Users, ti \in Titles, de \in Descriptions, pr \in Priorities,
          d \in DueDates, o \in {None, Some(0)} :
       \E rec \in {None} \cup {Some(r) : r \in RecurrenceInputs} :
            CreateTask(u, ti, de, pr, d, o, rec)
    \/ \E t \in TaskIds : ToggleTask(t)
    \/ \E t \in TaskIds : GenerateNextTask(t)
    \/ \E t \in TaskIds : HandleTaskCompleted(t)
    \/ \E t \in TaskIds, cascade \in BOOLEAN : DeleteTask(t, cascade)
    \/ \E p \in PatternIds, u \in Users, enforced \in BOOLEAN : DeletePattern(p, u, enforced)
    \/ Tick

SpecRecur == Init /\ [][NextRecur]_vars

\* ------------------------------------------------- in-memory TaskStore

StoreTitles == {"a", "b", "", " "}
StoreDescriptions == {"", "d"}
StoreIds == 1..(MaxStoreTasks + 1)

\* Task._validate_title raises ValueError on an empty or whitespace-only
\* title ("not title or not title.strip()").
TitleRaises(title) == title \in {"", " "}

\* Task(id=..., title=..., description=..., is_complete=False)
StoreTask(id, title, description) ==
    [id |-> id, title |-> title, description |-> description, is_complete |-> FALSE]

\* Mutant: the id is one more than the largest id in the store.
TaskStoreAddIdFromStore(title, description) ==
    LET id == IF store_tasks = << >> THEN 1
              ELSE 1 + CHOOSE m \in DOMAIN store_tasks :
                          \A o \in DOMAIN store_tasks : o <= m
    IN  /\ Len(handed_out) < MaxStoreTasks
        /\ IF TitleRaises(title)
           THEN UNCHANGED storeVars
           ELSE /\ store_tasks' = Insert(store_tasks, id, StoreTask(id, title, description))
                /\ store_next_id' = id + 1
                /\ handed_out' = Append(handed_out, id)
        /\ UNCHANGED <<backendVars, calendarVars, sched_calls, brokerVars, answer, wsVars>>

\* TaskStore.add(title, description); Task(...) raises before anything is
\* stored when the title is not valid.
TaskStoreAdd(title, description) ==
    /\ store_next_id <= MaxStoreTasks
    /\ IF TitleRaises(title)
       THEN UNCHANGED storeVars
       ELSE /\ store_tasks' = Insert(store_tasks, store_next_id,
                                     StoreTask(store_next_id, title, description))
            /\ store_next_id' = store_next_id + 1
            /\ handed_out' = Append(handed_out, store_next_id)
    /\ UNCHANGED <<backendVars, calendarVars, sched_calls, brokerVars, answer, wsVars>>

\* TaskStore.update(task_id, title, description): the task afterwards; a
\* title that is not valid raises before anything is assigned.
UpdatedStoreTask(task, title, description) ==
    IF title /= None /\ TitleRaises(Val(title)) THEN task
    ELSE [task EXCEPT !.title = IF title /= None THEN Val(title) ELSE @,
                      !.description = IF description /= None THEN Val(description) ELSE @]

TaskStoreUpdate(task_id, title, description) ==
    /\ store_tasks' = IF task_id \in DOMAIN store_tasks
                      THEN Update(store_tasks, task_id,
                                  UpdatedStoreTask(store_tasks[task_id], title, description))
                      ELSE store_tasks
    /\ UNCHANGED <<store_next_id, handed_out, backendVars, calendarVars, sched_calls, brokerVars, answer, wsVars>>

\* TaskStore.delete(task_id)
TaskStoreDelete(task_id) ==
    /\ store_tasks' = IF task_id \in DOMAIN store_tasks
                      THEN Remove(store_tasks, {task_id}) ELSE store_tasks
    /\ UNCHANGED <<store_next_id, handed_out, backendVars, calendarVars, sched_calls, brokerVars, answer, wsVars>>

\* TaskStore.toggle_complete(task_id)
TaskStoreToggleComplete(task_id) ==
    /\ store_tasks' = IF task_id \in DOMAIN store_tasks
                      THEN Update(store_tasks, task_id,
                                  [store_tasks[task_id] EXCEPT !.is_complete = ~@])
                      ELSE store_tasks
    /\ UNCHANGED <<store_next_id, handed_out, backendVars, calendarVars, sched_calls, brokerVars, answer, wsVars>>

\* Two users with recurring tasks: create, complete, regenerate, and
\* delete_pattern called by either user on any pattern id.
NextTenants ==
    \/ \E u \in Tenants, ti \in Titles, de \in Descriptions, pr \in Priorities :
       \E rec \in {None, Some(CHOOSE r \in RecurrenceInputs :
                                    r.type = DAILY /\ r.end_date = None)} :
            CreateTask(u, ti, de, pr, Some(1), Some(0), rec)
    \/ \E t \in TaskIds : ToggleTask(t)
    \/ \E t \in TaskIds : GenerateNextTask(t)
    \/ \E t \in TaskIds : HandleTaskCompleted(t)
    \/ \E t \in TaskIds, cascade \in BOOLEAN : DeleteTask(t, cascade)
    \/ \E p \in PatternIds, u \in Tenants, enforced \in BOOLEAN :
            DeletePattern(p, u, enforced)

SpecTenants == Init /\ [][NextTenants]_vars

\* The task service's operations on a task and the reminder service's
\* schedule_reminder and cancel_reminder, each call run on its own.
NextTaskOps ==
    \/ \E u \in Users, ti \in Titles, de \in Descriptions, pr \in Priorities,
          d \in DueDates, o \in Offsets :
            CreateTask(u, ti, de, pr, d, o, None)
    \/ \E t \in TaskIds, d \in DueDates, o \in Offsets : UpdateTask(t, d, o)
    \/ \E t \in TaskIds, c \in {Some(TRUE), Some(FALSE)} : PatchTask(t, c, None, None)
    \/ \E t \in TaskIds : ToggleTask(t)
    \/ \E t \in TaskIds, ch \in Channels : ScheduleReminder(t, ch)
    \/ \E t \in TaskIds : CancelReminder(t)
    \/ Tick

SpecTaskOps == Init /\ [][NextTaskOps]_vars

\* schedule_reminder calls of several requests at once, on tasks whose due
\* date and offset are edited and whose reminders are cancelled.
NextSchedule ==
    \/ \E u \in Users, ti \in Titles, de \in Descriptions, pr \in Priorities,
          d \in DueDates, o \in Offsets :
            CreateTask(u, ti, de, pr, d, o, None)
    \/ \E t \in TaskIds, d \in DueDates, o \in Offsets : PatchTask(t, None, d, o)
    \/ \E t \in TaskIds : CancelReminder(t)
    \/ \E c \in Callers, t \in TaskIds, ch \in Channels : ScheduleReminderBegin(c, t, ch)
    \/ \E c \in Callers, enforced \in BOOLEAN : ScheduleReminderCommit(c, enforced)
    \/ Tick

SpecSchedule == Init /\ [][NextSchedule]_vars

\* Positions of the reminder.due topic.
Positions == 1..(MaxReminders * MaxPublished)

\* The scheduler and the reminder.due consumer, each call run on its own, on
\* one task that is created, completed and deleted.
NextDelivery ==
    \/ \E u \in Users, ti \in Titles, de \in Descriptions, pr \in Priorities,
          d \in DueDates, o \in {Some(0)} :
            nextTaskId = 1 /\ CreateTask(u, ti, de, pr, d, o, None)
    \/ \E t \in TaskIds : ToggleTask(t)
    \/ \E t \in TaskIds, cascade \in BOOLEAN : DeleteTask(t, cascade)
    \/ ReminderScheduler
    \/ \E i \in Positions, delivery \in Deliveries, dlq_raises \in BOOLEAN :
            HandleReminderDue(i, delivery, dlq_raises)
    \/ Tick

SpecDelivery == Init /\ [][NextDelivery]_vars

\* The same, where the cron binding keeps triggering the scheduler, time
\* goes on, and the broker keeps delivering the events that were not
\* answered SUCCESS or DROP.
SpecDeliveryFair ==
    /\ Init
    /\ [][NextDelivery]_vars
    /\ WF_vars(ReminderScheduler)
    /\ WF_vars(Tick)
    /\ WF_vars(\E i \in Positions, delivery \in Deliveries, dlq_raises \in BOOLEAN :
                    HandleReminderDue(i, delivery, dlq_raises))

\* The consumer handler with other requests running while it waits for the
\* delivery: the scheduler, cancel_reminder, toggle_task and other handler
\* calls.
NextHandler ==
    \/ \E u \in Users, ti \in Titles, de \in Descriptions, pr \in Priorities,
          d \in DueDates, o \in {Some(0)} :
            nextTaskId = 1 /\ CreateTask(u, ti, de, pr, d, o, None)
    \/ \E t \in TaskIds : ToggleTask(t)
    \/ \E t \in TaskIds : CancelReminder(t)
    \/ ReminderScheduler
    \/ \E i \in Positions : HandleReminderDueBegin(i)
    \/ \E i \in Positions, delivery \in Deliveries, dlq_raises \in BOOLEAN :
            HandleReminderDueEnd(i, delivery, dlq_raises)
    \/ Tick

SpecHandler == Init /\ [][NextHandler]_vars

NextCalendar == Calculate

\* A recurring series of every pattern and first due date of the input sets,
\* whose latest task keeps being completed.
\* Recurring series followed to their end: a task with a pattern is created,
\* then the latest task of the series is completed again and again; every
\* completion event is handled (weak fairness of CompleteLatest).
SeriesPatterns == {p \in CalendarPatterns : p.interval \in {1, 2, MaxInterval}}

SeriesDates == {DateTime(2024, 1, 31, 0, 0), DateTime(2023, 12, 31, 18, 45)}

StartSeries ==
    /\ cal_pattern = None
    /\ cal_pattern' \in SeriesPatterns
    /\ cal_from_date' \in SeriesDates
    /\ UNCHANGED <<cal_results, backendVars, storeVars, sched_calls, brokerVars, answer, wsVars>>

NextSeries == StartSeries \/ CompleteLatest

SpecSeries == Init /\ [][NextSeries]_vars /\ WF_vars(CompleteLatest)

\* The in-memory TaskStore under any sequence of its operations.
NextStore ==
    \/ \E title \in StoreTitles, description \in StoreDescriptions :
            TaskStoreAdd(title, description)
    \/ \E id \in StoreIds, title \in {None} \cup {Some(x) : x \in StoreTitles},
          description \in {None} \cup {Some(x) : x \in StoreDescriptions} :
            TaskStoreUpdate(id, title, description)
    \/ \E id \in StoreIds : TaskStoreDelete(id)
    \/ \E id \in StoreIds : TaskStoreToggleComplete(id)

SpecStore == Init /\ [][NextStore]_vars

SpecCalendar == InitCalendar /\ [][NextCalendar]_vars

\* ================================================================== claims

\* C1: after any sequence of schedule_reminder, cancel_reminder, mark_sent,
\* mark_failed and sweep calls, every task has at most one reminder with
\* status Pending.
C1_AtMostOnePending ==
    \A t \in TaskIds : Cardinality(PendingReminders(reminders, t)) <= 1

\* A task with a pending reminder and an older reminder that is no longer
\* pending: schedule_reminder has run again after the first one was settled.
C1_Witness ==
    \E t \in TaskIds, r1, r2 \in DOMAIN reminders :
        /\ r1 < r2
        /\ reminders[r1].task_id = t /\ reminders[r2].task_id = t
        /\ reminders[r1].status /= PENDING
        /\ reminders[r2].status = PENDING
        /\ reminders[r2].delivery_channel = "email"

\* C2: status transitions are monotonic: a reminder that is Sent stays Sent
\* and a reminder that is Failed stays Failed, whatever is called next.
C2_Monotonic ==
    [][\A r \in DOMAIN reminders :
            r \in DOMAIN reminders' =>
                /\ reminders[r].status = SENT => reminders'[r].status = SENT
                /\ reminders[r].status = FAILED => reminders'[r].status = FAILED]_vars

\* C5: mark_failed on a pending reminder adds one to retry_count and records
\* the error message; the status becomes Failed exactly when the new
\* retry_count is >= MAX_RETRY_ATTEMPTS and stays Pending otherwise; no other
\* reminder changes.  With an unknown id it returns false and changes nothing.
C5_MarkFailed ==
    /\ [](\A r \in ReminderIds \ DOMAIN reminders, e \in DeliveryErrors :
            /\ MarkReminderResult(reminders, r) = FALSE
            /\ MarkReminderFailedTable(reminders, r, e) = reminders)
    /\ [][\A r \in DOMAIN reminders, e \in DeliveryErrors :
            (MarkReminderFailed(r, e) /\ reminders[r].status = PENDING) =>
                /\ MarkReminderResult(reminders, r) = TRUE
                /\ reminders'[r].retry_count = reminders[r].retry_count + 1
                /\ reminders'[r].error_message = Some(e)
                /\ reminders'[r].status =
                      IF reminders'[r].retry_count >= MAX_RETRY_ATTEMPTS THEN FAILED ELSE PENDING
                /\ \A q \in DOMAIN reminders \ {r} : reminders'[q] = reminders[q]]_vars

\* A reminder that mark_failed has left Pending (first failure) beside one it
\* has turned Failed (third failure); neither is due, so no sweep touched them.
C5_Witness ==
    \E r1, r2 \in DOMAIN reminders :
        /\ reminders[r1].status = PENDING
        /\ reminders[r1].scheduled_time > now
        /\ reminders[r1].retry_count = 1
        /\ reminders[r1].error_message \in {Some(e) : e \in DeliveryErrors}
        /\ reminders[r2].status = FAILED
        /\ reminders[r2].scheduled_time > now
        /\ reminders[r2].retry_count = MAX_RETRY_ATTEMPTS
        /\ reminders[r2].error_message \in {Some(e) : e \in DeliveryErrors}

\* Three mark_failed calls in a row on reminder r.
MarkFailedThrice(rems, r, e) ==
    MarkReminderFailedTable(
        MarkReminderFailedTable(MarkReminderFailedTable(rems, r, e), r, e), r, e)

\* C6: three mark_failed calls on a reminder that is Pending with retry_count
\* 0 leave it Failed with retry_count 3; from then on no get_due_reminders
\* query returns it, with or without include_retries, whatever its
\* scheduled_time: a reminder whose retry_count has reached 3 is never
\* selected, and retry_count never decreases.
C6_FailedAfterThree ==
    /\ [](\A r \in DOMAIN reminders, e \in DeliveryErrors :
            (reminders[r].status = PENDING /\ reminders[r].retry_count = 0) =>
                LET after == MarkFailedThrice(reminders, r, e)
                IN  /\ after[r].status = FAILED
                    /\ after[r].retry_count = MAX_RETRY_ATTEMPTS
                    /\ \A inc \in BOOLEAN : r \notin DueSet(after, inc))
    /\ [](\A r \in DOMAIN reminders, inc \in BOOLEAN :
            reminders[r].retry_count >= MAX_RETRY_ATTEMPTS => r \notin DueSet(reminders, inc))
    /\ [][\A r \in DOMAIN reminders :
            r \in DOMAIN reminders' =>
                reminders'[r].retry_count >= reminders[r].retry_count]_vars

\* A reminder failed three times whose scheduled_time has passed, while
\* another reminder is due: the query has something to return, and not it.
C6_Witness ==
    \E r \in DOMAIN reminders :
        /\ reminders[r].status = FAILED
        /\ reminders[r].retry_count = MAX_RETRY_ATTEMPTS
        /\ reminders[r].error_message \in {Some(e) : e \in DeliveryErrors}
        /\ reminders[r].scheduled_time <= now
        /\ DueSet(reminders, TRUE) /= {}

\* -------------------------------------------------------- WebSocketManager
WsUsers == {"u1", "u2"}
Sockets == 1..MaxSockets

\* self._connections.get(user_id, [])
ConnectionsOf(conns, user_id) == IF user_id \in DOMAIN conns THEN conns[user_id] ELSE << >>

\* [c for c in self._connections[user_id] if c.websocket != websocket], for
\* every websocket in gone.
Without(connections, gone) ==
    LET Stays(c) == c \notin gone IN SelectSeq(connections, Stays)

\* connect.  A WebSocket object is accepted once (a second accept raises
\* before anything is registered); the welcome message is sent after the
\* registration and changes nothing.
Connect(websocket, user_id) ==
    /\ \A u \in DOMAIN ws_connections : \A k \in 1..Len(ws_connections[u]) :
            ws_connections[u][k] /= websocket
    /\ ws_connections' = Insert(ws_connections, user_id,
                                Append(ConnectionsOf(ws_connections, user_id), websocket))
    /\ failed_connections' = None
    /\ UNCHANGED <<backendVars, calendarVars, storeVars, sched_calls, brokerVars, answer>>

\* disconnect: the user's entry is deleted when its list becomes empty.
Disconnect(websocket, user_id) ==
    /\ IF user_id \in DOMAIN ws_connections
       THEN LET rest == Without(ws_connections[user_id], {websocket})
            IN  ws_connections' = IF rest = << >> THEN Remove(ws_connections, {user_id})
                                  ELSE Update(ws_connections, user_id, rest)
       ELSE UNCHANGED ws_connections
    /\ failed_connections' = None
    /\ UNCHANGED <<backendVars, calendarVars, storeVars, sched_calls, brokerVars, answer>>

\* broadcast_to_user, the clean-up of the connections whose send failed: they
\* are filtered out of the user's list, and the entry stays.
BroadcastTable(conns, user_id, failed) ==
    IF failed /= {} /\ user_id \in DOMAIN conns
    THEN Update(conns, user_id, Without(conns[user_id], failed))
    ELSE conns

\* broadcast_to_user; failing are the websockets whose send_json raises.
BroadcastToUser(user_id, failing) ==
    LET connections == ConnectionsOf(ws_connections, user_id)
        registered == {connections[k] : k \in 1..Len(connections)}
        failed == registered \cap failing
    IN  /\ ws_connections' = BroadcastTable(ws_connections, user_id, failed)
        /\ failed_connections' = Some([user_id |-> user_id, failed |-> failed,
                                       sent |-> registered \ failed])
        /\ UNCHANGED <<backendVars, calendarVars, storeVars, sched_calls, brokerVars, answer>>

\* get_connected_users
GetConnectedUsers == DOMAIN ws_connections

\* get_connection_count
GetConnectionCount(user_id) == Len(ConnectionsOf(ws_connections, user_id))

NextWs ==
    \/ \E websocket \in Sockets, user_id \in WsUsers : Connect(websocket, user_id)
    \/ \E websocket \in Sockets, user_id \in WsUsers : Disconnect(websocket, user_id)
    \/ \E user_id \in WsUsers, failing \in SUBSET Sockets : BroadcastToUser(user_id, failing)

SpecWs == Init /\ [][NextWs]_vars

\* ------------------------------------------------------------ sweep claims
\* The tables of the model hold fewer than DEFAULT_LIMIT rows, so a sweep
\* fetches every reminder of DueSet.

\* The task of reminder r is missing / is complete / is there and incomplete.
TaskMissing(r) == reminders[r].task_id \notin DOMAIN tasks
TaskComplete(r) == ~TaskMissing(r) /\ tasks[reminders[r].task_id].is_complete
TaskLive(r) == ~TaskMissing(r) /\ ~tasks[reminders[r].task_id].is_complete

\* The positions of the events the sweep that just ended published for r.
EventsFor(events, r) == {i \in 1..Len(events) : events[i].reminder_id = r}

\* C7: a sweep sets a fetched due reminder whose task is missing to Cancelled
\* with error_message "Task not found" and one whose task is complete to
\* Cancelled with "Task already completed", and publishes no event for either:
\* every event of a sweep is for a reminder whose task exists and is incomplete.
C7_SweepCancels ==
    [][Sweep =>
        /\ \A r \in DueSet(reminders, TRUE) :
              /\ TaskMissing(r) =>
                    /\ reminders'[r].status = CANCELLED
                    /\ reminders'[r].error_message = Some("Task not found")
                    /\ EventsFor(published', r) = {}
              /\ TaskComplete(r) =>
                    /\ reminders'[r].status = CANCELLED
                    /\ reminders'[r].error_message = Some("Task already completed")
                    /\ EventsFor(published', r) = {}
        /\ \A i \in 1..Len(published') :
              /\ published'[i].reminder_id \in DOMAIN reminders
              /\ TaskLive(published'[i].reminder_id)]_vars

\* Sweeps have cancelled one reminder for a missing task and one for a
\* completed task.
C7_Witness ==
    \E r1, r2 \in DOMAIN reminders :
        /\ reminders[r1].status = CANCELLED
        /\ reminders[r1].error_message = Some("Task not found")
        /\ reminders[r1].task_id \notin DOMAIN tasks
        /\ reminders[r2].status = CANCELLED
        /\ reminders[r2].error_message = Some("Task already completed")
        /\ reminders[r2].task_id \in DOMAIN tasks

\* C8: when publishing fails for a reminder during a sweep, it is handled as
\* by mark_failed (retry_count one higher, the error recorded, status Failed
\* when retry_count reaches 3 and unchanged otherwise), every other fetched
\* reminder is still processed (cancelled, published or failed in its turn),
\* and the sweep returns.
C8_PublishFailureIsolated ==
    /\ [](ENABLED Sweep)
    /\ [][Sweep =>
            \A r \in DueSet(reminders, TRUE) :
                \/ /\ ~TaskLive(r)
                   /\ reminders'[r].status = CANCELLED
                \/ /\ TaskLive(r)
                   /\ Cardinality(EventsFor(published', r)) = 1
                   /\ reminders'[r] = reminders[r]
                \/ /\ TaskLive(r)
                   /\ EventsFor(published', r) = {}
                   /\ reminders'[r].retry_count = reminders[r].retry_count + 1
                   /\ reminders'[r].error_message = Some(PublishError)
                   /\ reminders'[r].status =
                         IF reminders'[r].retry_count >= MAX_RETRY_ATTEMPTS
                         THEN FAILED ELSE reminders[r].status]_vars

\* The sweep that just ended published one reminder and failed to publish
\* another, which is Pending with its first failure recorded.
C8_Witness ==
    \E r1, r2 \in DOMAIN reminders :
        /\ r1 /= r2
        /\ EventsFor(published, r1) /= {}
        /\ EventsFor(published, r2) = {}
        /\ reminders[r2].status = PENDING
        /\ reminders[r2].retry_count = 1
        /\ reminders[r2].error_message = Some(PublishError)

\* C9: a sweep returns the number of reminders for which it published an
\* event: one event per counted reminder, none of them cancelled or failed
\* by this sweep, and nothing else counted.
C9_SweepCount ==
    /\ [](processed = Len(published))
    /\ [][Sweep =>
            /\ \A i, j \in 1..Len(published') :
                  published'[i].reminder_id = published'[j].reminder_id => i = j
            /\ \A i \in 1..Len(published') :
                  reminders'[published'[i].reminder_id] = reminders[published'[i].reminder_id]
            /\ processed' = Cardinality({r \in DueSet(reminders, TRUE) :
                                            TaskLive(r) /\ reminders'[r] = reminders[r]})]_vars

\* A sweep returned 1 having fetched two reminders: one published, the other
\* cancelled for its completed task.
C9_Witness ==
    /\ processed = 1
    /\ \E r1, r2 \in DOMAIN reminders :
          /\ EventsFor(published, r1) /= {}
          /\ reminders[r1].scheduled_time <= reminders[r2].scheduled_time
          /\ reminders[r2].status = CANCELLED
          /\ reminders[r2].error_message = Some("Task already completed")

\* Reminder r is Pending, its scheduled_time has passed, its task exists and
\* is incomplete.
DueAndLive(r) ==
    /\ reminders[r].status = PENDING
    /\ reminders[r].scheduled_time <= now
    /\ TaskLive(r)

\* Event e carries reminder r's id and delivery channel, its task's id, owner,
\* title and due date, and the number of the attempt.
EventCarries(e, r) ==
    LET t == reminders[r].task_id
    IN  /\ e.reminder_id = r
        /\ e.delivery_channel = reminders[r].delivery_channel
        /\ e.task_id = t
        /\ e.user_id = tasks[t].user_id
        /\ e.task_title = tasks[t].title
        /\ Some(e.task_due_date) = tasks[t].due_date
        /\ e.attempt = reminders[r].retry_count + 1
        /\ e.attempt \in 1..MAX_RETRY_ATTEMPTS

\* C10 as stated: for every Pending reminder whose scheduled_time has passed
\* and whose task exists and is incomplete, one sweep publishes exactly one
\* reminder-due event, with the reminder's id and channel, the task's id,
\* owner, title and due date, and attempt = retry_count + 1.
C10_ExactlyOneEvent ==
    [][Sweep =>
        \A r \in DOMAIN reminders :
            DueAndLive(r) =>
                \E i \in 1..Len(published') :
                    /\ EventsFor(published', r) = {i}
                    /\ EventCarries(published'[i], r)]_vars

\* C10 amended: for every such reminder one sweep makes one publish attempt.
\* When it succeeds exactly one event is published, with that payload and
\* attempt = retry_count + 1 in 1..MAX_RETRY_ATTEMPTS, and the reminder is
\* left as it was; when it raises (the transport fails, or the task has no
\* due date left to build the event from) no event is published and the
\* failure is recorded on the reminder.
C10_OneEventUnlessPublishRaises ==
    [][Sweep =>
        \A r \in DOMAIN reminders :
            DueAndLive(r) =>
                /\ Cardinality(EventsFor(published', r)) <= 1
                /\ \A i \in EventsFor(published', r) :
                      /\ EventCarries(published'[i], r)
                      /\ reminders'[r] = reminders[r]
                /\ tasks[reminders[r].task_id].due_date = None =>
                      EventsFor(published', r) = {}
                /\ EventsFor(published', r) = {} =>
                      /\ reminders'[r].retry_count = reminders[r].retry_count + 1
                      /\ reminders'[r].error_message = Some(PublishError)]_vars

\* The sweep that just ended published a second attempt for one reminder and
\* could not build the event of another, whose task has lost its due date.
C10_Witness ==
    \E r1, r2 \in DOMAIN reminders :
        /\ \E i \in EventsFor(published, r1) : published[i].attempt = 2
        /\ reminders[r1].retry_count = 1
        /\ EventsFor(published, r2) = {}
        /\ reminders[r2].task_id \in DOMAIN tasks
        /\ tasks[reminders[r2].task_id].due_date = None
        /\ reminders[r2].status = PENDING
        /\ reminders[r2].error_message = Some(PublishError)

\* ------------------------------------------------------- recurrence claims

\* The tasks that exist and were generated from task t.
Successors(t) == {n \in DOMAIN tasks : <<t, n>> \in generated}

\* The first task of the series of task t: t itself unless t was generated.
RECURSIVE FirstTask(_)
FirstTask(t) ==
    IF \E c \in TaskIds : <<c, t>> \in generated
    THEN FirstTask(CHOOSE c \in TaskIds : <<c, t>> \in generated)
    ELSE t

\* Task t is there, recurring and complete.
CompletedRecurring(t) ==
    /\ t \in DOMAIN tasks
    /\ tasks[t].recurrence_id /= None
    /\ tasks[t].is_complete

\* C3: whatever task.completed events are handled, also repeated ones for
\* the same task, at most one successor generated from a completed recurring
\* task exists.
C3_AtMostOneSuccessor ==
    \A t \in TaskIds : CompletedRecurring(t) => Cardinality(Successors(t)) <= 1

\* C4: every task generated by completing the latest task of a series has as
\* parent_task_id the id of the first task of the series, and never the id of
\* its immediate predecessor when that predecessor was itself generated.  (A
\* parent_task_id that the deletion of the first task has cleared is not
\* held against the claim.)
C4_ParentIsFirstTask ==
    \A c \in TaskIds : \A n \in Successors(c) :
        CompletedRecurring(c) =>
            /\ tasks[n].parent_task_id /= None =>
                    tasks[n].parent_task_id = Some(FirstTask(c))
            /\ FirstTask(c) /= c => tasks[n].parent_task_id /= Some(c)
\* ------------------------------------------------------------------- C11

\* The limit arguments get_due_reminders is called with.
Limits == 0..MaxLimit

\* The WHERE clause as the claim words it.
Qualifies(r, include_retries) ==
    \/ reminders[r].status = PENDING /\ reminders[r].scheduled_time <= now
    \/ /\ include_retries
       /\ reminders[r].status = FAILED
       /\ reminders[r].retry_count < 3

UpdatedInPlace(t, r, channel) ==
    /\ ScheduleReminderResult(reminders, nextReminderId, t) = Some(r)
    /\ DOMAIN reminders' = DOMAIN reminders
    /\ reminders'[r] =
          [reminders[r] EXCEPT
              !.scheduled_time = Val(tasks[t].due_date) - Val(tasks[t].reminder_offset_minutes),
              !.delivery_channel = channel]
    /\ \A o \in DOMAIN reminders \ {r} : reminders'[o] = reminders[o]

\* A second schedule_reminder call for the same unchanged task right after
\* the step changes nothing.
SecondCallNoChange(t, channel) ==
    ScheduleReminderTable(reminders', nextReminderId', t, channel) = reminders'

\* C12 as stated: schedule_reminder on a task that already has a Pending
\* reminder returns that reminder with scheduled_time and delivery_channel
\* updated in place and creates no reminder, and a second call in a row
\* leaves the same reminder state as the first.
C12_UpdatesPending ==
    [][\A t \in TaskIds, c \in Channels :
         (ScheduleReminder(t, c) /\ PendingReminders(reminders, t) /= {})
         => /\ \A r \in PendingReminders(reminders, t) : UpdatedInPlace(t, r, c)
            /\ SecondCallNoChange(t, c)]_vars

\* C12, amended: the same, for calls that are not a no-op (the task has
\* due_date and reminder_offset_minutes and due_date minus offset is not
\* before now); a second call in a row changes nothing in any case.
C12_UpdatesPendingUnlessSkipped ==
    [][\A t \in TaskIds, c \in Channels :
         ScheduleReminder(t, c)
         => /\ (PendingReminders(reminders, t) /= {} /\ ~ScheduleSkips(tasks[t]))
               => \A r \in PendingReminders(reminders, t) : UpdatedInPlace(t, r, c)
            /\ SecondCallNoChange(t, c)]_vars

\* The one reminder of a task created with due_date and offset is Pending on
\* channel "email": schedule_reminder has updated the "in-app" reminder that
\* create_task made, and added none.
C12_Witness ==
    \E t \in DOMAIN tasks, r \in DOMAIN reminders :
        /\ reminders[r].task_id = t
        /\ reminders[r].status = PENDING
        /\ reminders[r].delivery_channel = "email"
        /\ tasks[t].due_date /= None /\ tasks[t].reminder_offset_minutes /= None
        /\ \A o \in DOMAIN reminders : reminders[o].task_id = t => o = r

\* ------------------------------------------------------------------- C13

\* The no-op cases as the claim words them.
NoReminderNeeded(t) ==
    \/ tasks[t].due_date = None
    \/ tasks[t].reminder_offset_minutes = None
    \/ \E d \in 0..MaxTime, o \in 0..MaxTime :
          /\ tasks[t].due_date = Some(d) /\ tasks[t].reminder_offset_minutes = Some(o)
          /\ d - o < now

\* C13: schedule_reminder returns None and leaves every reminder as it was
\* when the task has no due_date, no reminder_offset_minutes, or due_date
\* minus offset is strictly before now; otherwise (a scheduled time equal to
\* now, an offset of 0 included) it returns a reminder.
C13_NoOpCases ==
    [][\A t \in TaskIds, c \in Channels :
         ScheduleReminder(t, c)
         => IF NoReminderNeeded(t)
            THEN /\ ScheduleReminderResult(reminders, nextReminderId, t) = None
                 /\ reminders' = reminders
                 /\ nextReminderId' = nextReminderId
            ELSE /\ ScheduleReminderResult(reminders, nextReminderId, t) /= None
                 /\ \E r \in DOMAIN reminders' :
                       /\ reminders'[r].task_id = t
                       /\ reminders'[r].status = PENDING
                       /\ reminders'[r].delivery_channel = c]_vars

\* At now = 1 a task due at 1 with offset 0 has a Sent reminder, sent at 1,
\* and a Pending "email" reminder scheduled at 1: schedule_reminder took a
\* scheduled time equal to now and an offset of 0.
C13_Witness ==
    \E t \in DOMAIN tasks, r1, r2 \in DOMAIN reminders :
        /\ now = 1
        /\ tasks[t].due_date = Some(1) /\ tasks[t].reminder_offset_minutes = Some(0)
        /\ reminders[r1].task_id = t /\ reminders[r2].task_id = t
        /\ r1 < r2
        /\ reminders[r1].status = SENT /\ reminders[r1].sent_at = Some(1)
        /\ reminders[r2].status = PENDING
        /\ reminders[r2].delivery_channel = "email"
        /\ reminders[r2].scheduled_time = now

\* ------------------------------------------------------------------- C14

\* C14: when schedule_reminder creates a reminder (the task has due_date and
\* offset, the scheduled time is not before now and the task has no Pending
\* reminder), exactly one row is added and it has status Pending,
\* retry_count 0, scheduled_time = due_date - reminder_offset_minutes, the
\* task's id and the task's owner.
C14_CreatedReminder ==
    [][\A t \in TaskIds, c \in Channels :
         (/\ ScheduleReminder(t, c)
          /\ ~NoReminderNeeded(t)
          /\ \A r \in DOMAIN reminders :
                ~(reminders[r].task_id = t /\ reminders[r].status = PENDING))
         => /\ DOMAIN reminders' = DOMAIN reminders \cup {nextReminderId}
            /\ nextReminderId \notin DOMAIN reminders
            /\ ScheduleReminderResult(reminders, nextReminderId, t) = Some(nextReminderId)
            /\ reminders'[nextReminderId].status = PENDING
            /\ reminders'[nextReminderId].retry_count = 0
            /\ \E d \in 0..MaxTime, o \in 0..MaxTime :
                  /\ tasks[t].due_date = Some(d)
                  /\ tasks[t].reminder_offset_minutes = Some(o)
                  /\ reminders'[nextReminderId].scheduled_time = d - o
            /\ reminders'[nextReminderId].task_id = t
            /\ reminders'[nextReminderId].user_id = tasks[t].user_id
            /\ reminders'[nextReminderId].delivery_channel = c
            /\ reminders'[nextReminderId].sent_at = None
            /\ \A o \in DOMAIN reminders : reminders'[o] = reminders[o]]_vars

\* schedule_reminder has created a reminder for a task with offset 1 after
\* the task's first reminder was cancelled: Pending, scheduled at
\* due_date - 1, never retried.
C14_Witness ==
    \E t \in DOMAIN tasks, r1, r2 \in DOMAIN reminders :
        /\ tasks[t].due_date = Some(1) /\ tasks[t].reminder_offset_minutes = Some(1)
        /\ reminders[r1].task_id = t /\ reminders[r2].task_id = t
        /\ reminders[r1].status = CANCELLED
        /\ reminders[r2].status = PENDING
        /\ reminders[r2].delivery_channel = "email"
        /\ reminders[r2].scheduled_time = 0
        /\ reminders[r2].retry_count = 0

\* ------------------------------------------------------------------- C15

\* Task t has a Pending reminder.
HadPending(t) ==
    \E r \in DOMAIN reminders : reminders[r].task_id = t /\ reminders[r].status = PENDING

\* C15: cancel_reminder(task_id) returns true exactly when the task had a
\* Pending reminder; after true that reminder is Cancelled, otherwise as it
\* was, and the task has no Pending reminder; after false no reminder has
\* changed; reminders of other tasks and reminders of the task that were not
\* Pending are never changed, and no row is added or removed.
C15_CancelReminder ==
    [][\A t \in TaskIds :
         CancelReminder(t)
         => /\ CancelReminderResult(reminders, t) = HadPending(t)
            /\ DOMAIN reminders' = DOMAIN reminders
            /\ HadPending(t)
               => /\ \A r \in DOMAIN reminders :
                       (reminders[r].task_id = t /\ reminders[r].status = PENDING)
                       => reminders'[r] = [reminders[r] EXCEPT !.status = CANCELLED]
                  /\ \A r \in DOMAIN reminders' :
                       ~(reminders'[r].task_id = t /\ reminders'[r].status = PENDING)
            /\ ~HadPending(t) => reminders' = reminders
            /\ \A r \in DOMAIN reminders :
                  (reminders[r].task_id /= t \/ reminders[r].status /= PENDING)
                  => reminders'[r] = reminders[r]]_vars

\* An incomplete task with a Sent reminder and a later reminder that
\* cancel_reminder cancelled (the sweep would have left a message).
C15_Witness ==
    \E t \in DOMAIN tasks, r1, r2 \in DOMAIN reminders :
        /\ ~tasks[t].is_complete
        /\ r1 < r2
        /\ reminders[r1].task_id = t /\ reminders[r2].task_id = t
        /\ reminders[r1].status = SENT
        /\ reminders[r2].status = CANCELLED
        /\ reminders[r2].error_message = None

\* ------------------------------------------------------------------- C16

\* C16: mark_reminder_sent on an existing reminder returns true and leaves it
\* Sent with sent_at = now, changing nothing else; with an unknown id it
\* returns false and changes no reminder; so in every reachable state a Sent
\* reminder has sent_at set.
C16_MarkSent ==
    /\ [](\A r \in DOMAIN reminders :
            reminders[r].status = SENT => reminders[r].sent_at /= None)
    /\ [][\A r \in ReminderIds :
            MarkReminderSent(r)
            => IF r \in DOMAIN reminders
               THEN /\ MarkReminderResult(reminders, r) = TRUE
                    /\ DOMAIN reminders' = DOMAIN reminders
                    /\ reminders'[r].status = SENT
                    /\ reminders'[r].sent_at = Some(now)
                    /\ reminders'[r] = [reminders[r] EXCEPT !.status = reminders'[r].status,
                                                            !.sent_at = reminders'[r].sent_at]
                    /\ \A o \in DOMAIN reminders \ {r} : reminders'[o] = reminders[o]
               ELSE /\ MarkReminderResult(reminders, r) = FALSE
                    /\ reminders' = reminders]_vars

\* A reminder marked sent at now = 1 while a reminder id is still unknown.
C16_Witness ==
    /\ now = 1
    /\ nextReminderId <= MaxReminders
    /\ \E r \in DOMAIN reminders :
          /\ reminders[r].status = SENT
          /\ reminders[r].sent_at = Some(1)
          /\ reminders[r].retry_count = 0

\* ------------------------------------------------------------------- C17

\* Task n needs a reminder: due_date and offset set, scheduled time not
\* before now.
ReminderApplies(task) ==
    IF task.due_date = None \/ task.reminder_offset_minutes = None THEN FALSE
    ELSE Val(task.due_date) - Val(task.reminder_offset_minutes) >= now

\* C17: when the task.completed event of a completed recurring task is
\* handled and a successor is generated whose due_date and offset are set
\* and whose scheduled time is not before now, the successor has a Pending
\* reminder when the handler returns.
C17_SuccessorReminder ==
    [][\A t \in TaskIds :
         (/\ HandleTaskCompleted(t)
          /\ t \in DOMAIN tasks
          /\ tasks[t].is_complete
          /\ nextTaskId' = nextTaskId + 1
          /\ ReminderApplies(tasks'[nextTaskId]))
         => \E r \in DOMAIN reminders' :
               /\ reminders'[r].task_id = nextTaskId
               /\ reminders'[r].status = PENDING]_vars

\* ------------------------------------------------------------------- C18

\* The date generate_next_task counts from: the completed task's due_date,
\* or now when it has none.
FromDate(task) == IF task.due_date /= None THEN task.due_date[1] ELSE now

\* C18: when generate_next_task succeeds it returns the one task it has
\* added; that task is incomplete and has the completed task's owner, title,
\* description, priority, reminder_offset_minutes and recurrence_id, and its
\* due_date is the pattern's next occurrence after the completed task's
\* due_date (after now when it has none; one interval of days later for a
\* daily pattern); the completed task and every other task are as before.
C18_GeneratedTask ==
    [][\A t \in TaskIds :
         (GenerateNextTask(t) /\ nextTaskId' /= nextTaskId)
         => LET completed_task == tasks[t]
                new_task == tasks'[nextTaskId]
                pattern == patterns[completed_task.recurrence_id[1]]
            IN  /\ GenerateNextTaskResult(t) = Some(nextTaskId)
                /\ nextTaskId \notin DOMAIN tasks
                /\ DOMAIN tasks' = DOMAIN tasks \cup {nextTaskId}
                /\ \A o \in DOMAIN tasks : tasks'[o] = tasks[o]
                /\ new_task.is_complete = FALSE
                /\ new_task.user_id = completed_task.user_id
                /\ new_task.title = completed_task.title
                /\ new_task.description = completed_task.description
                /\ new_task.priority = completed_task.priority
                /\ new_task.reminder_offset_minutes = completed_task.reminder_offset_minutes
                /\ new_task.recurrence_id = completed_task.recurrence_id
                /\ completed_task.recurrence_id /= None
                /\ new_task.due_date =
                      CalculateNextOccurrence(pattern, FromDate(completed_task))
                /\ new_task.due_date /= None
                /\ pattern.type = DAILY
                   => new_task.due_date =
                        Some(FromDate(completed_task) + pattern.interval * 1440)]_vars

\* A completed task due at minute 1 and the task generated from it, due one
\* day later, itself completed and followed by a third.
C18_Witness ==
    \E c, n, m \in DOMAIN tasks :
        /\ <<c, n>> \in generated /\ <<n, m>> \in generated
        /\ tasks[c].is_complete /\ tasks[n].is_complete /\ ~tasks[m].is_complete
        /\ tasks[c].due_date = Some(1)
        /\ tasks[n].due_date = Some(1441)
        /\ tasks[m].due_date = Some(2881)
        /\ tasks[m].description = "d1" /\ tasks[m].priority = "high"

\* ------------------------------------------------------------------- C19

\* The completed task has no recurrence_id, or its pattern is gone, or the
\* pattern has no occurrence after the date counted from.
NothingToGenerate(t) ==
    IF tasks[t].recurrence_id = None THEN TRUE
    ELSE IF tasks[t].recurrence_id[1] \notin DOMAIN patterns THEN TRUE
    ELSE CalculateNextOccurrence(patterns[tasks[t].recurrence_id[1]],
                                 FromDate(tasks[t])) = None

\* The series of task t has ended: its pattern's end_date is reached by the
\* date counted from, or lies before the day after it (daily pattern).
SeriesEnded(t) ==
    /\ tasks[t].recurrence_id /= None
    /\ \E p \in DOMAIN patterns :
          /\ tasks[t].recurrence_id = Some(p)
          /\ patterns[p].end_date /= None
          /\ \/ FromDate(tasks[t]) >= patterns[p].end_date[1]
             \/ /\ patterns[p].type = DAILY
                /\ FromDate(tasks[t]) + patterns[p].interval * 1440
                     > patterns[p].end_date[1]

\* C19: generate_next_task returns None, creates no task and changes no
\* stored task when the completed task has no recurrence_id, when its
\* pattern no longer exists, or when calculate_next_occurrence returns None
\* because the series has ended; the call completes in each of these cases.
C19_NothingGenerated ==
    /\ [](\A t \in DOMAIN tasks :
            /\ SeriesEnded(t) => NothingToGenerate(t)
            /\ NothingToGenerate(t)
               => GenerateNextTaskResult(t) = None /\ ENABLED GenerateNextTask(t))
    /\ [][\A t \in TaskIds :
            (GenerateNextTask(t) /\ NothingToGenerate(t))
            => /\ tasks' = tasks
               /\ nextTaskId' = nextTaskId
               /\ generated' = generated]_vars

\* A generated task due at 1441 whose daily pattern ends at 2880 is complete
\* and has no successor although one more could be generated in the run.
C19_Witness ==
    /\ Cardinality(generated) < MaxGenerated
    /\ \E c, n \in DOMAIN tasks :
          /\ <<c, n>> \in generated
          /\ tasks[n].is_complete
          /\ tasks[n].due_date = Some(1441)
          /\ SeriesEnded(n)
          /\ \A g \in generated : g[1] /= n

\* ------------------------------------------------------------------- C20

\* C20: generate_next_task never creates, updates or cancels a reminder: the
\* reminders are the same before and after the call, whether or not a
\* successor is generated; and in any step that generates a successor, the
\* handler's included, no reminder is added, the successor has none, and a
\* reminder changes only by cancel_reminder on the completed task.
C20_RemindersUntouched ==
    /\ [][\A t \in TaskIds :
            GenerateNextTask(t)
            => reminders' = reminders /\ nextReminderId' = nextReminderId]_vars
    /\ [][generated' /= generated
          => /\ DOMAIN reminders' = DOMAIN reminders
             /\ \A r \in DOMAIN reminders' : reminders'[r].task_id /= nextTaskId
             /\ \A r \in DOMAIN reminders :
                   reminders'[r] /= reminders[r]
                   => /\ reminders[r].status = PENDING
                      /\ reminders'[r] = [reminders[r] EXCEPT !.status = CANCELLED]
                      /\ \E g \in generated' \ generated :
                            reminders[r].task_id = g[1]]_vars

\* A task that still has its Pending reminder after a successor was
\* generated from it: generate_next_task ran without the handler's
\* cancel_reminder, and the successor has no reminder.
C20_Witness ==
    \E g \in generated :
        /\ g[1] \in DOMAIN tasks /\ g[2] \in DOMAIN tasks
        /\ \E r \in DOMAIN reminders :
              reminders[r].task_id = g[1] /\ reminders[r].status = PENDING
        /\ \A r \in DOMAIN reminders : reminders[r].task_id /= g[2]
        /\ tasks[g[2]].reminder_offset_minutes /= None

\* ------------------------------------------------------------------- C21

\* The calls of calculate_next_occurrence made so far.
CalCalls == 1..Len(cal_results)

\* C21: for a pattern with end_date set, calculate_next_occurrence returns
\* None when from_date >= end_date or when the computed next date is later
\* than end_date; so a date it returns is <= end_date and was computed from
\* a from_date strictly before end_date.
C21_EndDate ==
    \A k \in CalCalls :
        cal_pattern.end_date /= None
        => LET end_date == cal_pattern.end_date[1]
               from_date == CalFrom(k)
           IN  /\ from_date >= end_date => cal_results[k] = None
               /\ CalculateNextDate(cal_pattern, from_date) > end_date
                  => cal_results[k] = None
               /\ cal_results[k] /= None
                  => /\ cal_results[k][1] <= end_date
                     /\ from_date < end_date
                     /\ cal_results[k][1] > from_date

\* A pattern with end_date set for which the first call returned a date and
\* the call from that date returned None.
C21_Witness ==
    /\ cal_pattern /= None
    /\ Len(cal_results) = 2
    /\ cal_pattern.end_date /= None
    /\ cal_results[1] /= None
    /\ cal_results[2] = None

\* ------------------------------------------------------------------- C22

\* The number of days of a month, leap years included.
LastDayOfMonth(year, month) ==
    IF month \in {4, 6, 9, 11} THEN 30
    ELSE IF month /= 2 THEN 31
    ELSE IF (year % 4 = 0 /\ year % 100 /= 0) \/ year % 400 = 0 THEN 29
    ELSE 28

\* The year, month and day call k builds its date from (Monthly and Yearly
\* patterns).
CalTarget(k) ==
    IF cal_pattern.type = MONTHLY
    THEN MonthlyTarget(CalFrom(k), cal_pattern.interval, cal_pattern.day_of_month)
    ELSE YearlyTarget(CalFrom(k), cal_pattern.interval, cal_pattern.month_of_year,
                      cal_pattern.day_of_month)

\* C22: for every Monthly or Yearly pattern and every from_date the date
\* calculate_next_occurrence builds is a valid calendar date: its month is
\* in 1..12 and its day between 1 and the number of days of that month in
\* that year; the date returned is that year, month and day.
C22_ValidDate ==
    \A k \in CalCalls :
        cal_pattern.type \in {MONTHLY, YEARLY}
        => LET ymd == CalTarget(k)
           IN  /\ ymd[2] \in 1..12
               /\ ymd[3] >= 1
               /\ ymd[3] <= LastDayOfMonth(ymd[1], ymd[2])
               /\ cal_results[k] /= None
                  => /\ Year(cal_results[k][1]) = ymd[1]
                     /\ Month(cal_results[k][1]) = ymd[2]
                     /\ Day(cal_results[k][1]) = ymd[3]

\* The 31st of every month from 2100-01-31: 2100 is not a leap year and the
\* call returned February 28th.
C22_Witness ==
    /\ cal_pattern /= None
    /\ cal_results /= << >>
    /\ cal_pattern.type = MONTHLY
    /\ cal_pattern.day_of_month = Some(31)
    /\ cal_from_date = DateTime(2100, 1, 31, 7, 15)
    /\ cal_results[1] = Some(DateTime(2100, 2, 28, 7, 15))

\* ------------------------------------------------------------------- C23

\* Months counted from year 0: the month of date d.
MonthIndex(d) == Year(d) * 12 + Month(d)

\* C23: for a Monthly pattern the returned date lies exactly interval months
\* after from_date's month (also for intervals above 12), and its day is
\* min(target day, last day of that month), the target day being
\* day_of_month or else from_date's day; day 30 from 2024-01-30 gives
\* 2024-02-29 and from 2023-01-30 gives 2023-02-28.
C23_Monthly ==
    \A k \in CalCalls :
        (cal_pattern.type = MONTHLY /\ cal_results[k] /= None)
        => LET from_date == CalFrom(k)
               next_date == cal_results[k][1]
               target_day == IF cal_pattern.day_of_month = None THEN Day(from_date)
                             ELSE cal_pattern.day_of_month[1]
               last_day == LastDayOfMonth(Year(next_date), Month(next_date))
           IN  /\ MonthIndex(next_date) = MonthIndex(from_date) + cal_pattern.interval
               /\ Day(next_date) = IF target_day <= last_day THEN target_day ELSE last_day
               /\ (k = 1 /\ cal_pattern.interval = 1 /\ cal_pattern.day_of_month = Some(30))
                  => /\ from_date = DateTime(2024, 1, 30, 10, 0)
                        => next_date = DateTime(2024, 2, 29, 10, 0)
                     /\ from_date = DateTime(2023, 1, 30, 10, 0)
                        => next_date = DateTime(2023, 2, 28, 10, 0)

\* Every 13 months from 2023-12-31: the call returned 2025-01-31, two years
\* on, and the call after it 2026-02-28.
C23_Witness ==
    /\ cal_pattern /= None
    /\ Len(cal_results) = 2
    /\ cal_pattern.type = MONTHLY
    /\ cal_pattern.interval = 13
    /\ cal_pattern.day_of_month = None
    /\ cal_from_date = DateTime(2023, 12, 31, 18, 45)
    /\ cal_results[1] = Some(DateTime(2025, 1, 31, 18, 45))
    /\ cal_results[2] = Some(DateTime(2026, 2, 28, 18, 45))

\* ------------------------------------------------------------------- C24

\* C24: for a Yearly pattern the returned date has year = from_date's year +
\* interval, month = month_of_year or else from_date's month, and day =
\* min(target day, last day of that month in that year), the target day
\* being day_of_month or else from_date's day; a February 29th target gives
\* February 28th in a year that is not a leap year and February 29th in one
\* that is.
C24_Yearly ==
    \A k \in CalCalls :
        (cal_pattern.type = YEARLY /\ cal_results[k] /= None)
        => LET from_date == CalFrom(k)
               next_date == cal_results[k][1]
               target_month == IF cal_pattern.month_of_year = None THEN Month(from_date)
                               ELSE cal_pattern.month_of_year[1]
               target_day == IF cal_pattern.day_of_month = None THEN Day(from_date)
                             ELSE cal_pattern.day_of_month[1]
               last_day == LastDayOfMonth(Year(next_date), Month(next_date))
               leap == \/ Year(next_date) % 4 = 0 /\ Year(next_date) % 100 /= 0
                       \/ Year(next_date) % 400 = 0
           IN  /\ Year(next_date) = Year(from_date) + cal_pattern.interval
               /\ Month(next_date) = target_month
               /\ Day(next_date) = IF target_day <= last_day THEN target_day ELSE last_day
               /\ (target_month = 2 /\ target_day = 29)
                  => Day(next_date) = IF leap THEN 29 ELSE 28

\* Every February 29th from 2024-02-29: the call returned 2025-02-28.
C24_Witness ==
    /\ cal_pattern /= None
    /\ cal_results /= << >>
    /\ cal_pattern.type = YEARLY
    /\ cal_pattern.interval = 1
    /\ cal_pattern.month_of_year = Some(2)
    /\ cal_pattern.day_of_month = Some(29)
    /\ cal_from_date = DateTime(2024, 2, 29, 23, 59)
    /\ cal_results[1] = Some(DateTime(2025, 2, 28, 23, 59))

\* ------------------------------------------------------------------- C25

\* The weekdays a Weekly pattern lists (empty when unset or empty).
Listed ==
    IF cal_pattern.days_of_week = None THEN {}
    ELSE {cal_pattern.days_of_week[1][i] : i \in 1..Len(cal_pattern.days_of_week[1])}

\* The listed weekdays strictly later in the week than date d's weekday.
LaterThisWeek(d) == {day \in Listed : day > Weekday(d)}

\* The Monday 00:00 of the week of date d.
MondayOf(d) == (d \div 1440 - Weekday(d)) * 1440

\* C25: for a Weekly pattern with days_of_week, when a listed weekday is
\* strictly later in the week than from_date's weekday, the date returned is
\* the nearest such weekday of the same week, at from_date's time of day, for
\* every interval.
C25_WeeklySameWeek ==
    \A k \in CalCalls :
        (/\ cal_pattern.type = WEEKLY
         /\ cal_results[k] /= None
         /\ LaterThisWeek(CalFrom(k)) /= {})
        => LET from_date == CalFrom(k)
               next_date == cal_results[k][1]
           IN  /\ MondayOf(next_date) = MondayOf(from_date)
               /\ Weekday(next_date) \in LaterThisWeek(from_date)
               /\ \A day \in LaterThisWeek(from_date) : Weekday(next_date) <= day
               /\ next_date % 1440 = from_date % 1440

\* Mondays, Wednesdays and Fridays every 3 weeks from Tuesday 2024-01-02:
\* the call returned Wednesday 2024-01-03.
C25_Witness ==
    /\ cal_pattern /= None
    /\ cal_results /= << >>
    /\ cal_pattern.type = WEEKLY
    /\ cal_pattern.interval = 3
    /\ cal_pattern.days_of_week = Some(<<0, 2, 4>>)
    /\ cal_from_date = DateTime(2024, 1, 2, 9, 30)
    /\ cal_results[1] = Some(DateTime(2024, 1, 3, 9, 30))

\* ------------------------------------------------------------------- C26

\* C26: for a Weekly pattern with days_of_week, when no listed weekday is
\* strictly later in the week than from_date's weekday, the date returned is
\* the earliest listed weekday of the week whose Monday is interval weeks
\* after the Monday of from_date's week, at from_date's time of day; a Friday
\* with Monday, Wednesday and Friday listed and interval 1 gives the
\* following Monday.
C26_WeeklyNextCycle ==
    \A k \in CalCalls :
        (/\ cal_pattern.type = WEEKLY
         /\ cal_results[k] /= None
         /\ Listed /= {}
         /\ LaterThisWeek(CalFrom(k)) = {})
        => LET from_date == CalFrom(k)
               next_date == cal_results[k][1]
           IN  /\ MondayOf(next_date)
                     = MondayOf(from_date) + cal_pattern.interval * 7 * 1440
               /\ Weekday(next_date) \in Listed
               /\ \A day \in Listed : Weekday(next_date) <= day
               /\ next_date % 1440 = from_date % 1440
               /\ (/\ cal_pattern.interval = 1
                   /\ cal_pattern.days_of_week = Some(<<0, 2, 4>>)
                   /\ from_date = DateTime(2024, 1, 5, 9, 30))
                  => next_date = DateTime(2024, 1, 8, 9, 30)

\* Mondays every 2 weeks from Monday 2024-01-01: the call returned Monday
\* 2024-01-15 and the call after it Monday 2024-01-29.
C26_Witness ==
    /\ cal_pattern /= None
    /\ Len(cal_results) = 2
    /\ cal_pattern.type = WEEKLY
    /\ cal_pattern.interval = 2
    /\ cal_pattern.days_of_week = Some(<<0>>)
    /\ cal_from_date = DateTime(2024, 1, 1, 9, 30)
    /\ cal_results[1] = Some(DateTime(2024, 1, 15, 9, 30))
    /\ cal_results[2] = Some(DateTime(2024, 1, 29, 9, 30))

\* ------------------------------------------------------------------- C27

\* C27: calculate_next_occurrence keeps from_date's time of day for every
\* kind of pattern; for Daily and Custom patterns the date returned is
\* from_date plus interval days, and for a Weekly pattern with empty or
\* unset days_of_week it is from_date plus interval weeks, the same weekday.
C27_TimeOfDay ==
    \A k \in CalCalls :
        cal_results[k] /= None
        => LET from_date == CalFrom(k)
               next_date == cal_results[k][1]
           IN  /\ next_date % 1440 = from_date % 1440
               /\ cal_pattern.type \in {DAILY, CUSTOM}
                  => next_date = from_date + cal_pattern.interval * 1440
               /\ (cal_pattern.type = WEEKLY /\ Listed = {})
                  => /\ next_date = from_date + cal_pattern.interval * 7 * 1440
                     /\ Weekday(next_date) = Weekday(from_date)

\* A Yearly pattern from 2024-02-29 23:59 whose call returned a date at
\* 23:59, and was followed by a second call.
C27_Witness ==
    /\ cal_pattern /= None
    /\ Len(cal_results) = 2
    /\ cal_pattern.type = YEARLY
    /\ cal_from_date = DateTime(2024, 2, 29, 23, 59)
    /\ cal_results[1] /= None
    /\ cal_results[2] /= None
    /\ cal_results[2][1] % 1440 = 23 * 60 + 59

\* ------------------------------------------------------------------- C28

C29_DeletePattern ==
    /\ [](\A p \in PatternIds, u \in Tenants :
            LET result == DeletePatternResult(patterns, p, u)
                after == DeletePatternTable(patterns, p, u)
            IN  /\ p \notin DOMAIN patterns => ~result /\ after = patterns
                /\ p \in DOMAIN patterns
                   => IF patterns[p].user_id = u
                      THEN /\ result
                           /\ DOMAIN after = DOMAIN patterns \ {p}
                           /\ \A q \in DOMAIN after : after[q] = patterns[q]
                      ELSE ~result /\ after = patterns)
    /\ [][\A p \in PatternIds, u \in Tenants, enforced \in BOOLEAN :
            (DeletePattern(p, u, enforced) /\ patterns' /= patterns)
            => /\ p \in DOMAIN patterns
               /\ patterns[p].user_id = u
               /\ p \notin DOMAIN patterns']_vars

\* User u2's pattern was deleted (by u2) where foreign keys are not
\* enforced: u2's task still carries its id, and u1 has a task.
C29_Witness ==
    /\ patterns = << >>
    /\ nextPatternId > 1
    /\ \E t, o \in DOMAIN tasks :
          /\ tasks[t].user_id = "u2"
          /\ tasks[t].recurrence_id = Some(1)
          /\ tasks[o].user_id = "u1"

\* ------------------------------------------------------------------- C30

\* C30: after any sequence of add, update, delete and toggle_complete, the
\* ids add has handed out are 1, 2, 3, ... in that order: each is strictly
\* greater than every id handed out before it, so none is reused, also after
\* the task that had it was deleted; the stored tasks have handed-out ids
\* and the next id is a fresh one.
C30_IdsNeverReused ==
    /\ \A i \in 1..Len(handed_out) : handed_out[i] = i
    /\ \A i, j \in 1..Len(handed_out) : i < j => handed_out[i] < handed_out[j]
    /\ \A id \in DOMAIN store_tasks :
          /\ \E i \in 1..Len(handed_out) : handed_out[i] = id
          /\ store_tasks[id].id = id
    /\ \A i \in 1..Len(handed_out) : handed_out[i] < store_next_id

\* Three ids were handed out, the tasks with ids 1 and 2 were deleted, and
\* the task with id 3 is stored (and was toggled).
C30_Witness ==
    /\ handed_out = <<1, 2, 3>>
    /\ DOMAIN store_tasks = {3}
    /\ store_tasks[3].is_complete

\* ------------------------------------------------------------------- C31

\* C31: schedule_reminder calls for one task that interleave (each reads the
\* task's Pending reminder before the other inserts or commits) leave at most
\* one Pending reminder for the task, and when a call has committed the
\* task's Pending reminder has that call's scheduled_time and channel.
C31_InterleavedSchedule ==
    /\ [](\A t \in TaskIds : Cardinality(PendingReminders(reminders, t)) <= 1)
    /\ [][\A c \in Callers, enforced \in BOOLEAN :
            (ScheduleReminderCommit(c, enforced) /\ reminders' /= reminders) =>
                \A r \in PendingReminders(reminders', sched_calls[c].task_id) :
                    /\ reminders'[r].scheduled_time = sched_calls[c].scheduled_time
                    /\ reminders'[r].delivery_channel = sched_calls[c].delivery_channel]_vars

\* ------------------------------------------------------------------- C32

\* C32: over any sequence of sweeps and consumer callbacks, no two events
\* published on the reminder.due topic carry the same reminder id and the
\* same attempt number: a reminder a sweep has published is published again
\* only after a mark_failed.
C32_PublishedOncePerAttempt ==
    \A i, j \in DOMAIN topic :
        (i /= j /\ topic[i].reminder_id = topic[j].reminder_id) =>
            topic[i].attempt /= topic[j].attempt

\* ------------------------------------------------------------------- C33

\* C33: a reminder that is Cancelled never becomes Sent or Failed afterwards,
\* also when cancel_reminder or the sweep's cancellation runs while the
\* consumer handler is processing an event for the reminder: the handler
\* changes a reminder only if it is still Pending.
C33_CancelledStays ==
    [][\A r \in DOMAIN reminders :
          (reminders[r].status = CANCELLED /\ r \in DOMAIN reminders') =>
              /\ reminders'[r].status = CANCELLED
              /\ reminders'[r] = reminders[r]]_vars

\* ------------------------------------------------------------------- C34

\* The reminder a consumer handler has just marked failed, if any.
JustFailed(r) ==
    /\ answer' /= None
    /\ r \in DOMAIN reminders
    /\ r \in DOMAIN reminders'
    /\ reminders'[r].retry_count /= reminders[r].retry_count

Settled(r) == r \notin DOMAIN reminders \/ reminders[r].status /= PENDING

C35_RetryBranchDead ==
    /\ \A r \in DOMAIN reminders :
          /\ reminders[r].status = FAILED => reminders[r].retry_count >= MAX_RETRY_ATTEMPTS
          /\ reminders[r].status = PENDING => reminders[r].retry_count < MAX_RETRY_ATTEMPTS
    /\ DueSet(reminders, TRUE) = DueSet(reminders, FALSE)
    /\ \A due \in GetDueReminders(reminders, DEFAULT_LIMIT, TRUE) :
          \A k \in 1..Len(due) : reminders[due[k]].status = PENDING
    /\ \A k \in 1..Len(published) :
          /\ published[k].reminder_id \in DOMAIN reminders
          /\ reminders[published[k].reminder_id].status = PENDING

\* One reminder has failed for good and another is Pending after two
\* failures and due: the sweep retries it.
C35_Witness ==
    \E r, q \in DOMAIN reminders :
        /\ reminders[r].status = FAILED
        /\ reminders[r].retry_count = MAX_RETRY_ATTEMPTS
        /\ reminders[q].status = PENDING
        /\ reminders[q].retry_count = 2
        /\ q \in DueSet(reminders, TRUE)

\* ------------------------------------------------------------------- C36

\* The reminder of the event the handler has just answered.
Answered == topic[Val(answer').position].reminder_id

DeadLettersOf(r) == {k \in DOMAIN dlq : dlq[k].reminder_id = r}

C37_CompletedHasNoPending ==
    \A t \in DOMAIN tasks :
        tasks[t].is_complete => PendingReminders(reminders, t) = {}

\* ------------------------------------------------------------------- C38

\* C38: what create_task and update_task do to the reminders is what
\* schedule_reminder(task) does when called after the change to the task, and
\* they leave no Pending reminder of the task that they created or updated
\* with a scheduled_time before now.
C38_SameAsScheduleReminder ==
    [][\A rems \in {reminders}, rid \in {nextReminderId}, t \in TaskIds :
          ((\/ \E d \in DueDates, o \in Offsets : UpdateTask(t, d, o)
            \/ t \notin DOMAIN tasks /\ t \in DOMAIN tasks') /\ ~MultiplePending(rems, t)) =>
              /\ reminders' = (ScheduleReminderTable(rems, rid, t, "in-app"))'
              /\ \A r \in PendingReminders(reminders', t) :
                    (r \notin DOMAIN rems \/ reminders'[r] /= rems[r]) =>
                        reminders'[r].scheduled_time >= now]_vars

\* ------------------------------------------------------------------- C39

\* C39: for every pattern and from_date the date _calculate_next_date
\* computes is strictly later than from_date; hence the due dates of a
\* series strictly increase, never pass end_date, and for a pattern with
\* end_date completing the latest task again and again comes to the call
\* that returns None.
C39_SeriesEnds ==
    /\ [](cal_pattern /= None =>
            CalculateNextDate(cal_pattern, cal_from_date) > cal_from_date)
    /\ [][cal_results' /= cal_results =>
            IF cal_results'[1] = None THEN cal_from_date' = cal_from_date
            ELSE /\ cal_from_date' > cal_from_date
                 /\ cal_pattern.end_date /= None =>
                        cal_from_date' <= Val(cal_pattern.end_date)]_vars
    /\ (cal_pattern /= None /\ cal_pattern.end_date /= None) ~> (cal_results = <<None>>)

\* A monthly series with an end date has ended after at least one successor.
C39_Witness ==
    /\ cal_pattern /= None
    /\ cal_pattern.type = MONTHLY
    /\ cal_pattern.end_date /= None
    /\ cal_results = <<None>>
    /\ cal_from_date \notin SeriesDates

\* ------------------------------------------------------------------- C40

\* C40: after any sequence of connect, disconnect and broadcast_to_user,
\* every user id get_connected_users reports has at least one registered
\* connection; and right after a broadcast the connections whose send failed
\* are not registered for the user while those whose send succeeded are.
C40_ConnectedUsersHaveConnections ==
    /\ \A user_id \in GetConnectedUsers : GetConnectionCount(user_id) >= 1
    /\ failed_connections /= None =>
            LET b == Val(failed_connections)
                connections == ConnectionsOf(ws_connections, b.user_id)
                registered == {connections[k] : k \in 1..Len(connections)}
            IN  b.failed \cap registered = {} /\ b.sent \subseteq registered

====
